---- MODULE Spec2Model ----
(***************************************************************************)
(* Agent execution core of OpenManusWeb: the bounded message log (Memory), *)
(* the BaseAgent life cycle (run / state_context / is_stuck /              *)
(* handle_stuck_state) and the ReActAgent step (think, then act).          *)
(*                                                                         *)
(* JavaScript is single threaded: code between two awaits runs without     *)
(* interruption.  The run loop is cut into small actions for readability,  *)
(* but another caller can only act at the positions where run() is         *)
(* suspended in an await (pc = "think", pc = "act") or not active at all   *)
(* (pc = "idle").                                                          *)
(***************************************************************************)
EXTENDS Integers, Sequences, FiniteSets, TLC

VARIABLES
    \* ---- Memory (schema: class Memory) ----
    messages,            \* Memory.messages
    max_messages,        \* Memory.max_messages
    \* ---- BaseAgent fields ----
    state,               \* BaseAgent.state
    current_step,        \* BaseAgent.current_step
    max_steps,           \* BaseAgent.max_steps
    duplicate_threshold, \* BaseAgent.duplicate_threshold
    next_step_prompt,    \* BaseAgent.next_step_prompt: << >> is undefined, <<s>> is the string s
    \* ---- the activation of run() ----
    pc,                  \* position of run(): idle, loop, think, act, post_step, exit, catch, finally
    prevState,           \* state_context: const prevState
    results,             \* run: const results: string[]
    stepResult,          \* run: const stepResult
    should_act,          \* step: const should_act
    err,                 \* an exception thrown by step() is in flight
    ret,                 \* value returned by the last run() that returned
    outcome,             \* how the last accepted run() ended: none, returned, threw
    \* ---- observations (history only, never read by the program) ----
    attempts,            \* number of run() calls made
    rejections,          \* number of run() calls that failed the IDLE precondition
    interleaved,         \* a run() was accepted while another one was suspended
    entry_step,          \* current_step when the current run() was accepted
    step_texts,          \* the values the step() calls of the current run() returned
    fin_set,             \* a step() of the current run() set state to FINISHED
    think_calls,         \* think() calls made by the current step()
    act_calls,           \* act() calls made by the current step()
    detections,          \* number of is_stuck() detections so far
    orig_prompt,         \* next_step_prompt at construction
    appended,            \* every message ever appended to the log, in order
    stuck_result,        \* << >> or <<b>>: result of the last is_stuck() evaluation
    \* ---- ToolResult values under test ----
    res_a,               \* a ToolResult (the receiver of isTruthy() and add())
    res_b,               \* a ToolResult (the argument of add())
    res_c,               \* a third ToolResult, for chained add()
    res_out,             \* << >> or what the last ToolResult operation produced
    \* ---- a tool registry: ToolCollection, or MCPClients which extends it ----
    reg_kind,            \* "collection" (new ToolCollection) or "mcp" (new MCPClients)
    tools,               \* ToolCollection.tools
    tool_map,            \* ToolCollection.tool_map: a Map, as its entries <<key, tool>> in insertion order
    clients,             \* MCPClients.clients: the server ids that have a client
    transports,          \* MCPClients.transports: the server ids that have a transport
    reg_out,             \* a record of the last registry operation (history only)
    \* ---- a ToolCallAgent or an MCPAgent (whose mcp_clients is the registry above) ----
    agent_kind,          \* "base" (think/act left abstract), "toolcall" or "mcp"
    special_tool_names,  \* ToolCallAgent.special_tool_names
    cleanups,            \* number of cleanup() executions (history only)
    tc_out,              \* a record of the last direct act() / _handle_special_tool() call
    \* ---- message lists under test (format_messages, count_message_tokens, recent) ----
    fmt_a,               \* a list of messages (Message objects and plain records)
    fmt_b,               \* a second list of messages
    fmt_out,             \* a record of what the last operation on them produced
    \* ---- the gateway (LLM) and the call in progress ----
    llm,                 \* model, max_input_tokens, total_input_tokens, total_completion_tokens
    gw_pc,               \* "idle", "attempt" (an attempt is due), "done"
    gw_call,             \* the arguments of the call
    gw_attempts,         \* attempts made so far
    gw_last,             \* a record of the last attempt
    \* ---- a gateway shared by agents whose calls suspend at the provider ----
    sh_agents,           \* how many agents use the gateway (1 or 2)
    sh_started,          \* calls started so far (history only)
    sh_proc              \* per agent: where its call stands

memVars   == <<messages, max_messages>>
agentVars == <<state, current_step, max_steps, duplicate_threshold, next_step_prompt>>
frameVars == <<pc, prevState, results, stepResult, should_act, err, ret, outcome>>
obsVars   == <<attempts, rejections, interleaved, entry_step, step_texts, fin_set,
               think_calls, act_calls, detections, orig_prompt, appended, stuck_result>>
resVars   == <<res_a, res_b, res_c, res_out>>
regVars   == <<reg_kind, tools, tool_map, clients, transports, reg_out>>
tcVars    == <<agent_kind, special_tool_names, cleanups, tc_out>>
fmtVars   == <<fmt_a, fmt_b, fmt_out>>
gwVars    == <<llm, gw_pc, gw_call, gw_attempts, gw_last>>
shVars    == <<sh_agents, sh_started, sh_proc>>
lateVars  == <<fmtVars, gwVars, shVars>>
extVars   == <<resVars, regVars, tcVars, lateVars>>
vars      == <<memVars, agentVars, frameVars, obsVars, extVars>>

(***************************************************************************)
(* Bounds of the model.                                                    *)
(***************************************************************************)
MaxCap == 2
MaxAppends == 4
MaxBatch == 2
MaxSteps == 2
MaxCalls == 2
AgentMemCap == 3
MaxThreshold == 2
MaxStuckLen == 3
MaxMsgList == 2
MaxGwMsgs == 1
MaxTurns == 2
MaxShCalls == 2

(***************************************************************************)
(* schema: Role, AgentState, Message                                       *)
(***************************************************************************)
Role == [SYSTEM |-> "system", USER |-> "user", ASSISTANT |-> "assistant", TOOL |-> "tool"]

AgentState == [IDLE |-> "IDLE", RUNNING |-> "RUNNING", FINISHED |-> "FINISHED", ERROR |-> "ERROR"]

AGENT_STATE_VALUES == {AgentState.IDLE, AgentState.RUNNING, AgentState.FINISHED, AgentState.ERROR}

\* new Message({role, content}); an absent content is the empty string (both are falsy)
Message(role, content) == [role |-> role, content |-> content]

user_message(content) == Message(Role.USER, content)

assistant_message(content) == Message(Role.ASSISTANT, content)

tool_message(content) == Message(Role.TOOL, content)

\* new Message({ role: Role.TOOL, ...params }) with content and tool_calls in params
from_tool_calls(content, tool_calls) ==
    [role |-> Role.TOOL, content |-> content, tool_calls |-> tool_calls]

system_message(content) == Message(Role.SYSTEM, content)

(***************************************************************************)
(* Array.prototype.slice(start) of JavaScript: a negative start counts     *)
(* from the end, and -0 is 0, so slice(-0) is the whole array.             *)
(***************************************************************************)
Max(a, b) == IF a >= b THEN a ELSE b

Min(a, b) == IF a <= b THEN a ELSE b

slice(s, start) ==
    LET k == IF start < 0 THEN Max(Len(s) + start, 0) ELSE Min(start, Len(s))
    IN  SubSeq(s, k + 1, Len(s))

(***************************************************************************)
(* Memory.add_message / Memory.add_messages: push, then truncate.          *)
(***************************************************************************)
add_messages(msgs, cap, batch) ==
    LET pushed == msgs \o batch
    IN  IF Len(pushed) > cap THEN slice(pushed, 0 - cap) ELSE pushed

add_message(msgs, cap, m) ==
    LET pushed == Append(msgs, m)
    IN  IF Len(pushed) > cap THEN slice(pushed, 0 - cap) ELSE pushed

(***************************************************************************)
(* BaseAgent.is_stuck and BaseAgent.handle_stuck_state.                    *)
(***************************************************************************)
stuckPrompt ==
    "Observed duplicate responses. Consider new strategies and avoid repeating ineffective paths already attempted."

\* msgs.slice(0, -1).reverse().filter(assistant with the content of last).length
duplicateCount(msgs) ==
    LET last == msgs[Len(msgs)]
    IN  Cardinality({i \in 1..(Len(msgs) - 1) :
                        msgs[i].role = "assistant" /\ msgs[i].content = last.content})

\* is_stuck with a strict comparison against the threshold
is_stuck_strict(msgs, threshold) ==
    IF Len(msgs) < 2 THEN FALSE
    ELSE IF msgs[Len(msgs)].content = "" THEN FALSE
    ELSE duplicateCount(msgs) > threshold

is_stuck(msgs, threshold) ==
    IF Len(msgs) < 2 THEN FALSE
    ELSE IF msgs[Len(msgs)].content = "" THEN FALSE
    ELSE duplicateCount(msgs) >= threshold

\* handle_stuck_state that appends the instruction instead of prepending it
handle_stuck_state_appending(prompt) ==
    <<(IF prompt = << >> THEN "" ELSE prompt[1]) \o "\n" \o stuckPrompt>>

\* `${stuckPrompt}\n${this.next_step_prompt ?? ''}`
handle_stuck_state(prompt) ==
    <<stuckPrompt \o "\n" \o (IF prompt = << >> THEN "" ELSE prompt[1])>>

(***************************************************************************)
(* BaseAgent.run: its conditions and the strings it builds.                *)
(***************************************************************************)
\* a precondition that only rejects a RUNNING agent
run_rejects_running_only(st) == st = AgentState.RUNNING

\* if (this.state !== AgentState.IDLE) throw ...
run_rejects(st) == st # AgentState.IDLE

\* a loop condition that forgets the FINISHED test
loop_continues_budget_only(cs, ms, st) == cs < ms

\* while (this.current_step < this.max_steps && this.state !== AgentState.FINISHED)
loop_continues(cs, ms, st) == cs < ms /\ st # AgentState.FINISHED

\* a budget test that is off by one
budget_exhausted_strict(cs, ms) == cs > ms

\* if (this.current_step >= this.max_steps)
budget_exhausted(cs, ms) == cs >= ms

\* `Step ${this.current_step}: ${stepResult}`
StepLine(cs, text) == "Step " \o ToString(cs) \o ": " \o text

\* `Terminated: Reached max steps (${this.max_steps})`
TerminatedLine(ms) == "Terminated: Reached max steps (" \o ToString(ms) \o ")"

RECURSIVE join(_, _)
join(lines, sep) ==
    IF lines = << >> THEN ""
    ELSE IF Len(lines) = 1 THEN lines[1]
    ELSE lines[1] \o sep \o join(Tail(lines), sep)

\* results.join('\n') || 'No steps executed'
run_return(res) ==
    LET joined == join(res, "\n")
    IN  IF joined = "" THEN "No steps executed" ELSE joined

(***************************************************************************)
(* BaseAgent.state_context: the catch and the finally clause.              *)
(***************************************************************************)
\* a catch clause that rethrows without touching the state
state_context_catch_keeps(st) == st

state_context_catch(st) == AgentState.ERROR

\* a finally clause that leaves the state as the run left it
state_context_finally_keeps(st, prev) == st

state_context_finally(st, prev) == prev

(***************************************************************************)
(* ReActAgent.step: what follows the return of think().                    *)
(***************************************************************************)
NoActionText == "Thinking complete - no action needed"

\* a step that acts whatever think() returned
step_always_acts(thought) == TRUE

step_calls_act(thought) == thought

(***************************************************************************)
(* app/tool/base.ts: ToolResult.  A field that is undefined and a field    *)
(* that is the empty string are both written "": isTruthy(), add() and     *)
(* toString() only ever test a field for truthiness before they use it.    *)
(***************************************************************************)
ToolResult(output, error, base64_image, system) ==
    [output |-> output, error |-> error, base64_image |-> base64_image, system |-> system]

\* class ToolFailure extends ToolResult {}, always built as new ToolFailure({ error })
ToolFailure(error) == ToolResult("", error, "", "")

\* JavaScript a || b on strings: a when a is truthy, else b
Or(a, b) == IF a # "" THEN a ELSE b

isTruthy_without_system(r) ==
    Or(Or(r.output, r.error), r.base64_image) # ""

\* Boolean(this.output || this.error || this.base64_image || this.system)
isTruthy(r) ==
    Or(Or(Or(r.output, r.error), r.base64_image), r.system) # ""

combineFields_other_first(field, otherField, concatenate) ==
    IF field # "" /\ otherField # ""
      THEN IF concatenate THEN <<"value", otherField \o field>>
                          ELSE <<"throw", "Cannot combine tool results">>
      ELSE <<"value", Or(field, otherField)>>

\* add(): the local combineFields; <<"value", v>> is a return, <<"throw", m>> a ValueError
combineFields(field, otherField, concatenate) ==
    IF field # "" /\ otherField # ""
      THEN IF concatenate THEN <<"value", field \o otherField>>
                          ELSE <<"throw", "Cannot combine tool results">>
      ELSE <<"value", Or(field, otherField)>>

\* this.add(other)
add(this, other) ==
    LET o == combineFields(this.output, other.output, TRUE)
        e == combineFields(this.error, other.error, TRUE)
        b == combineFields(this.base64_image, other.base64_image, FALSE)
        y == combineFields(this.system, other.system, TRUE)
    IN  IF o[1] = "throw" THEN o
        ELSE IF e[1] = "throw" THEN e
        ELSE IF b[1] = "throw" THEN b
        ELSE IF y[1] = "throw" THEN y
        ELSE <<"value", ToolResult(o[2], e[2], b[2], y[2])>>

\* x.add(other) where x is itself the outcome of an add(): a thrown error goes on
addTo(x, other) == IF x[1] = "throw" THEN x ELSE add(x[2], other)

(***************************************************************************)
(* Names are sequences of characters, so that the code's character-level   *)
(* operations on them can be computed.                                     *)
(***************************************************************************)
RECURSIVE Str(_)
\* the JavaScript string a sequence of characters stands for
Str(cs) == IF cs = << >> THEN "" ELSE cs[1] \o Str(Tail(cs))

Lowers == {"a", "b", "c", "d", "e", "f", "g", "h", "i", "j", "k", "l", "m",
           "n", "o", "p", "q", "r", "s", "t", "u", "v", "w", "x", "y", "z"}

Uppers == {"A", "B", "C", "D", "E", "F", "G", "H", "I", "J", "K", "L", "M",
           "N", "O", "P", "Q", "R", "S", "T", "U", "V", "W", "X", "Y", "Z"}

Digits == {"0", "1", "2", "3", "4", "5", "6", "7", "8", "9"}

\* the regular expression class [\w-]
ValidNameChars == Lowers \cup Uppers \cup Digits \cup {"_", "-"}

(***************************************************************************)
(* app/utils/proto.ts and app/tool/tool_collection.ts.                     *)
(* A tool is [name, uid, server_id, original_name, behaviour]: uid tells   *)
(* two tool objects of one name apart, server_id is << >> for a tool that  *)
(* is not an MCPClientTool, behaviour is what its execute() does.          *)
(* An error object is [proto, message]: proto names the class whose        *)
(* prototype is the object's prototype.                                    *)
(***************************************************************************)
\* Object.getPrototypeOf(obj) === cls.prototype
isInstance(obj, cls) == obj.proto = cls

\* Map.prototype.has / get / set / values / keys on the entries of a Map
mapHas(m, k) == \E i \in 1..Len(m) : m[i][1] = k

mapGet(m, k) ==
    IF mapHas(m, k) THEN <<m[CHOOSE i \in 1..Len(m) : m[i][1] = k][2]>> ELSE << >>

mapSet(m, k, v) ==
    IF mapHas(m, k) THEN [i \in 1..Len(m) |-> IF m[i][1] = k THEN <<k, v>> ELSE m[i]]
                    ELSE Append(m, <<k, v>>)

mapValues(m) == [i \in 1..Len(m) |-> m[i][2]]

mapKeys(m) == {m[i][1] : i \in 1..Len(m)}

RECURSIVE mapFromTools(_)
\* new Map(this.tools.map((tool) => [tool.name, tool]))
mapFromTools(ts) ==
    IF ts = << >> THEN << >>
    ELSE LET n == Len(ts)
         IN  mapSet(mapFromTools(SubSeq(ts, 1, n - 1)), ts[n].name, ts[n])

\* a registry value: the fields of a ToolCollection / MCPClients object
Registry(ts, m, cl, tr) == [tools |-> ts, tool_map |-> m, clients |-> cl, transports |-> tr]

\* new ToolCollection({ tools })
ToolCollection(ts) == Registry(ts, mapFromTools(ts), {}, {})

\* MCPClientTool.execute: callTool's text content, or the caught failure, as a ToolResult
MCPClientTool_execute(tool) ==
    IF tool.behaviour = "returns"
      THEN <<"value", ToolResult(Str(tool.original_name), "", "", "")>>
      ELSE <<"value", ToolResult("", "Error executing tool: " \o tool.behaviour, "", "")>>

\* tool.execute(): <<"value", result>> or <<"throw", error>>
execute(tool) ==
    IF tool.server_id # << >> THEN MCPClientTool_execute(tool)
    ELSE IF tool.behaviour = "returns"
      THEN <<"value", ToolResult("out" \o ToString(tool.uid), "", "", "")>>
      ELSE <<"throw", [proto |-> tool.behaviour, message |-> "m" \o ToString(tool.uid)]>>

excute_unknown_runs_first(reg, name) ==
    IF reg.tools = << >>
      THEN [ret |-> <<"value", ToolFailure("Tool " \o Str(name) \o " not found")>>,
            executed |-> << >>]
      ELSE [ret |-> execute(reg.tools[1]), executed |-> <<reg.tools[1]>>]

\* excute({ name, tool_input }): what it returns or throws, and the tools it executed
excute(reg, name) ==
    LET tool == mapGet(reg.tool_map, name)
    IN  IF tool = << >>
          THEN [ret |-> <<"value", ToolFailure("Tool " \o Str(name) \o " not found")>>,
                executed |-> << >>]
          ELSE LET r == execute(tool[1])
               IN  [ret |-> IF r[1] = "throw" /\ isInstance(r[2], "ToolError")
                              THEN <<"value", ToolFailure(r[2].message)>>
                              ELSE r,
                    executed |-> <<tool[1]>>]

RECURSIVE excute_all_results(_)
\* excute_all(): the loop over this.tools
excute_all_results(ts) ==
    IF ts = << >> THEN << >>
    ELSE LET r == execute(ts[1])
             rest == excute_all_results(Tail(ts))
         IN  IF r[1] = "value" THEN <<r[2]>> \o rest
             ELSE IF isInstance(r[2], "ToolError") THEN <<ToolFailure(r[2].message)>> \o rest
             ELSE rest

\* excute_all(): every tool of this.tools is executed, nothing is rethrown
excute_all(reg) == [ret |-> <<"value", excute_all_results(reg.tools)>>, executed |-> reg.tools]

\* get_tool(name): << >> is undefined
get_tool(reg, name) == mapGet(reg.tool_map, name)

add_tool_replacing(reg, tool) ==
    [reg EXCEPT !.tools = Append(reg.tools, tool),
                !.tool_map = mapSet(reg.tool_map, tool.name, tool)]

\* add_tool(tool)
add_tool(reg, tool) ==
    IF mapHas(reg.tool_map, tool.name) THEN reg
    ELSE [reg EXCEPT !.tools = Append(reg.tools, tool),
                     !.tool_map = mapSet(reg.tool_map, tool.name, tool)]

RECURSIVE add_tools(_, _)
\* add_tools(tools)
add_tools(reg, ts) ==
    IF ts = << >> THEN reg ELSE add_tools(add_tool(reg, ts[1]), Tail(ts))

(***************************************************************************)
(* app/tool/mcp.ts: MCPClients.                                            *)
(***************************************************************************)
MaxToolNameLen == 64

\* name.replace(/[^\w-]/g, '_')
replaceInvalid(cs) == [i \in 1..Len(cs) |-> IF cs[i] \in ValidNameChars THEN cs[i] ELSE "_"]

RECURSIVE collapseUnderscores(_)
\* sanitized.replace(/_+/g, '_')
collapseUnderscores(cs) ==
    IF Len(cs) <= 1 THEN cs
    ELSE IF cs[1] = "_" /\ cs[2] = "_" THEN collapseUnderscores(Tail(cs))
    ELSE <<cs[1]>> \o collapseUnderscores(Tail(cs))

RECURSIVE trimLeading(_)
trimLeading(cs) == IF cs # << >> /\ cs[1] = "_" THEN trimLeading(Tail(cs)) ELSE cs

RECURSIVE trimTrailing(_)
trimTrailing(cs) ==
    IF cs # << >> /\ cs[Len(cs)] = "_" THEN trimTrailing(SubSeq(cs, 1, Len(cs) - 1)) ELSE cs

\* sanitized.replace(/^_+|_+$/g, '')
trimUnderscores(cs) == trimTrailing(trimLeading(cs))

\* _sanitize_tool_name(name)
sanitize_tool_name(cs) ==
    LET sanitized == trimUnderscores(collapseUnderscores(replaceInvalid(cs)))
    IN  IF Len(sanitized) > MaxToolNameLen THEN SubSeq(sanitized, 1, MaxToolNameLen)
                                           ELSE sanitized

\* `mcp_${server_id}_${original_name}`, sanitized
mcp_tool_name(server_id, original_name) ==
    sanitize_tool_name(<<"m", "c", "p", "_">> \o server_id \o <<"_">> \o original_name)

\* new MCPClientTool({ name, ..., server_id, original_name }) for a tool the server lists
MCPClientTool(server_id, listed) ==
    [name |-> mcp_tool_name(server_id, listed.name), uid |-> 0, server_id |-> server_id,
     original_name |-> listed.name, behaviour |-> listed.behaviour]

RECURSIVE set_listed_tools(_, _, _)
\* _initialize_and_list_tools: the loop over response.tools
set_listed_tools(m, server_id, listed) ==
    IF listed = << >> THEN m
    ELSE LET t == MCPClientTool(server_id, listed[1])
         IN  set_listed_tools(mapSet(m, t.name, t), server_id, Tail(listed))

\* _initialize_and_list_tools(server_id), when client.listTools() answers `listed`
initialize_and_list_tools(reg, server_id, listed) ==
    LET m == set_listed_tools(reg.tool_map, server_id, listed)
    IN  [reg EXCEPT !.tool_map = m, !.tools = mapValues(m)]

\* disconnect(server_id) for a non-empty server_id; close_fails: client.close() or
\* transport.close() throws, which the catch logs before anything was removed
disconnect_server(reg, server_id, close_fails) ==
    IF server_id \notin reg.clients \/ close_fails THEN reg
    ELSE LET m == SelectSeq(reg.tool_map, LAMBDA e : e[2].server_id # server_id)
         IN  Registry(mapValues(m), m, reg.clients \ {server_id},
                      reg.transports \ {server_id})

RECURSIVE disconnect_each(_, _, _)
\* disconnect(): the loop over the server ids (the order the ids are taken in
\* does not change what is left: each disconnect touches its own id only)
disconnect_each(reg, ids, failing) ==
    IF ids = {} THEN reg
    ELSE LET sid == CHOOSE x \in ids : TRUE
         IN  disconnect_each(disconnect_server(reg, sid, sid \in failing), ids \ {sid},
                             failing)

\* disconnect() without a server id; failing: the ids whose close throws
disconnect_all(reg, failing) ==
    [disconnect_each(reg, reg.clients, failing) EXCEPT !.tool_map = << >>, !.tools = << >>]

\* connect_stdio(command, args, server_id) / connect_sse(server_url, server_id) with
\* id = server_id || command: the registry afterwards and whether the call threw
connect(reg, id, listed, close_fails, connect_fails, list_fails) ==
    LET r1 == IF id \in reg.clients THEN disconnect_server(reg, id, close_fails) ELSE reg
        r2 == [r1 EXCEPT !.clients = r1.clients \cup {id},
                         !.transports = r1.transports \cup {id}]
    IN  IF connect_fails THEN [reg |-> r1, threw |-> TRUE]
        ELSE IF list_fails THEN [reg |-> r2, threw |-> TRUE]
        ELSE [reg |-> initialize_and_list_tools(r2, id, listed), threw |-> FALSE]

(***************************************************************************)
(* app/toolcall.ts: ToolCallAgent, and app/agent/mcp.ts: MCPAgent.         *)
(***************************************************************************)
\* String.prototype.toLowerCase on one character
lowerChar(c) ==
    CASE c = "A" -> "a" [] c = "B" -> "b" [] c = "C" -> "c" [] c = "D" -> "d"
      [] c = "E" -> "e" [] c = "F" -> "f" [] c = "G" -> "g" [] c = "H" -> "h"
      [] c = "I" -> "i" [] c = "J" -> "j" [] c = "K" -> "k" [] c = "L" -> "l"
      [] c = "M" -> "m" [] c = "N" -> "n" [] c = "O" -> "o" [] c = "P" -> "p"
      [] c = "Q" -> "q" [] c = "R" -> "r" [] c = "S" -> "s" [] c = "T" -> "t"
      [] c = "U" -> "u" [] c = "V" -> "v" [] c = "W" -> "w" [] c = "X" -> "x"
      [] c = "Y" -> "y" [] c = "Z" -> "z" [] OTHER -> c

\* name.toLowerCase()
toLowerCase(cs) == [i \in 1..Len(cs) |-> lowerChar(cs[i])]

TerminateName == <<"t", "e", "r", "m", "i", "n", "a", "t", "e">>

\* the field initialisers: special_tool_names = [] and special_tool_names = ['terminate']
DefaultSpecialToolNames(kind) == IF kind = "mcp" THEN <<TerminateName>> ELSE << >>

NotImplemented == "Method not implemented."

\* ToolCallAgent.think(): <<"throw", message>>
ToolCallAgent_think == <<"throw", NotImplemented>>

\* ToolCallAgent.act(): <<"throw", message>>
ToolCallAgent_act == <<"throw", NotImplemented>>

RefreshToolsInterval == 5

\* MCPAgent.think: clients.size === 0 || tool_map.size === 0
mcp_unavailable(reg) == Cardinality(reg.clients) = 0 \/ Len(reg.tool_map) = 0

\* MCPAgent.think: this.current_step % this._refresh_tools_interval === 0
refresh_due(cs) == cs % RefreshToolsInterval = 0

\* MCPAgent._refresh_tools: the notices it can add to memory
RefreshNotices ==
    {<< >>, <<system_message("New tools available")>>,
     <<system_message("Tools no longer available")>>,
     <<system_message("New tools available"), system_message("Tools no longer available")>>}

\* MCPAgent._should_finish_execution(name)
MCPAgent_should_finish_execution(name) == toLowerCase(name) = TerminateName

\* MCPAgent._handle_special_tool: its first statement awaits super._handle_special_tool,
\* which no class above MCPAgent defines, so the call fails before it changes anything
MCPAgent_handle_special_tool(name) == <<"throw", "super._handle_special_tool is not a function">>

\* MCPAgent.cleanup: if (this.mcp_clients.clients.size > 0) await this.mcp_clients.disconnect()
MCPAgent_cleanup(reg, failing) ==
    IF Cardinality(reg.clients) > 0 THEN disconnect_all(reg, failing) ELSE reg

\* which classes wrap run() in try { ... } finally { await this.cleanup() }
run_has_cleanup(kind) == kind = "mcp"

(***************************************************************************)
(* Messages as the gateway sees them: Message objects and plain records.   *)
(* A record lists its own keys; a Message object owns all six fields (the  *)
(* constructor assigns every one of them) and `keys` names those whose     *)
(* value is not undefined.  An absent role is the empty string.            *)
(***************************************************************************)
ROLE_VALUES == {Role.SYSTEM, Role.USER, Role.ASSISTANT, Role.TOOL}

NoContent == [text |-> "", kind |-> "undefined", parts |-> << >>]

StringContent(text) == [text |-> text, kind |-> "string", parts |-> << >>]

ArrayContent(parts) == [text |-> "", kind |-> "array", parts |-> parts]

TextPart(text) == [text |-> text, type |-> "text"]

ImagePart(url) == [text |-> url, type |-> "image_url"]

\* new ToolCall({id, fn: new Function({name, args})})
ToolCall(id, name, args) == [name |-> name, id |-> id, args |-> args, has_fn |-> TRUE]

OptionalKeys == {"content", "tool_calls", "name", "tool_call_id", "base64_image"}

MessageValue(cls, role, keys, content, tool_calls, name, tool_call_id, base64_image) ==
    [role |-> role, content |-> content, tool_calls |-> tool_calls,
     base64_image |-> base64_image, cls |-> cls, name |-> name, keys |-> keys,
     tool_call_id |-> tool_call_id]

\* `key in m`
hasKey(m, key) == IF m.cls = "Message" THEN TRUE ELSE key \in m.keys

\* the truthiness of a content value: '' and undefined are falsy, an array is truthy
isTruthyContent(content) ==
    \/ content.kind = "array"
    \/ content.kind = "string" /\ content.text # ""

\* the truthiness of m[key]
isTruthyField(m, key) ==
    /\ key \in m.keys
    /\ CASE key = "content"      -> isTruthyContent(m.content)
         [] key = "tool_calls"   -> TRUE
         [] key = "name"         -> m.name # ""
         [] key = "tool_call_id" -> m.tool_call_id # ""
         [] key = "base64_image" -> m.base64_image # ""

\* the record with this role and, of the fields of m, those named by keys
record_of(m, keys) ==
    MessageValue("dict", m.role, keys,
                 IF "content" \in keys THEN m.content ELSE NoContent,
                 IF "tool_calls" \in keys THEN m.tool_calls ELSE << >>,
                 IF "name" \in keys THEN m.name ELSE "",
                 IF "tool_call_id" \in keys THEN m.tool_call_id ELSE "",
                 IF "base64_image" \in keys THEN m.base64_image ELSE "")

\* Message.to_dict: the role, and each other field only if it is truthy
to_dict(m) == record_of(m, {k \in OptionalKeys : isTruthyField(m, k)})

(***************************************************************************)
(* LLM.format_messages                                                     *)
(***************************************************************************)
\* `'tool_calls' in messages`: it is asked of the array, and an array has no such property
tool_calls_in_messages(msgs) == FALSE

\* the image branch: the content becomes an array that ends with the image
with_image(message) ==
    LET parts == IF ~isTruthyField(message, "content") THEN << >>
                 ELSE IF message.content.kind = "string"
                      THEN <<TextPart(message.content.text)>>
                      ELSE message.content.parts
        url   == "data:image/jpeg;base64," \o message.base64_image
    IN  [message EXCEPT !.content = ArrayContent(Append(parts, ImagePart(url))),
                        !.keys = (@ \cup {"content"}) \ {"base64_image"},
                        !.base64_image = ""]

without_image(message) ==
    [message EXCEPT !.keys = @ \ {"base64_image"}, !.base64_image = ""]

format_images(message, support_images) ==
    IF support_images /\ isTruthyField(message, "base64_image") THEN with_image(message)
    ELSE IF ~support_images /\ isTruthyField(message, "base64_image")
         THEN without_image(message)
         ELSE message

\* the first loop: <<"value", kept>> or <<"throw", class, message>>
RECURSIVE format_each(_, _, _, _)
RECURSIVE format_record(_, _, _, _, _)
RECURSIVE keep_or_drop(_, _, _, _, _)
\* the end of a turn: push the record if it has a content key, and go on
keep_or_drop(msgs, i, support_images, formatted_messages, message) ==
    format_each(msgs, i + 1, support_images,
                IF hasKey(message, "content") \/ tool_calls_in_messages(msgs)
                THEN Append(formatted_messages, message)
                ELSE formatted_messages)

\* a turn from `if (!message.role)` on, message being a record
format_record(msgs, i, support_images, formatted_messages, message) ==
    IF message.role = ""
    THEN <<"throw", "ValueError", "Message dict must contain 'role' field">>
    ELSE keep_or_drop(msgs, i, support_images, formatted_messages,
                      format_images(message, support_images))

format_each(msgs, i, support_images, formatted_messages) ==
    IF i > Len(msgs) THEN <<"value", formatted_messages>>
    ELSE IF msgs[i].cls = "primitive"
         THEN <<"throw", "TypeError", "Message must be a Message object or a dict">>
         ELSE format_record(msgs, i, support_images, formatted_messages,
                            IF msgs[i].cls = "Message" THEN to_dict(msgs[i]) ELSE msgs[i])

\* the second loop, over what the first one returned
validate_roles(first) ==
    IF first[1] = "throw" THEN first
    ELSE IF \E i \in 1..Len(first[2]) : first[2][i].role \notin ROLE_VALUES
         THEN <<"throw", "ValueError", "Invalid role">>
         ELSE first

format_messages(msgs, support_images) ==
    validate_roles(format_each(msgs, 1, support_images, << >>))

(***************************************************************************)
(* TokenCounter                                                            *)
(***************************************************************************)
BASE_MESSAGE_TOKENS == 4
FORMAT_TOKENS == 2

\* tokenizer.encode(text).length for a non-empty text: one token per word of the
\* texts used here, which is what cl100k_base yields for them
encode_length(text) == IF text \in {"look at this", "{\"q\":1}"} THEN 3 ELSE 1

count_text(text) == IF text # "" THEN encode_length(text) ELSE 0

\* count_image of an item without detail or dimensions: 'medium', no dimensions
count_image == 1024

RECURSIVE count_parts(_)
count_parts(parts) ==
    IF parts = << >> THEN 0
    ELSE (IF Head(parts).type = "text" THEN count_text(Head(parts).text) ELSE count_image)
         + count_parts(Tail(parts))

count_content(content) ==
    IF ~isTruthyContent(content) THEN 0
    ELSE IF content.kind = "string" THEN count_text(content.text)
         ELSE count_parts(content.parts)

RECURSIVE count_tool_calls(_)
count_tool_calls(tool_calls) ==
    IF tool_calls = << >> THEN 0
    ELSE (IF Head(tool_calls).has_fn
          THEN count_text(Head(tool_calls).name) + count_text(Head(tool_calls).args)
          ELSE 0)
         + count_tool_calls(Tail(tool_calls))

\* one turn of the forEach: `x in m` of a primitive, and undefined.forEach, raise
message_throws(m) ==
    \/ m.cls = "primitive"
    \/ hasKey(m, "tool_calls") /\ "tool_calls" \notin m.keys

message_tokens(m) ==
    BASE_MESSAGE_TOKENS + count_text(m.role)
    + (IF hasKey(m, "content") THEN count_content(m.content) ELSE 0)
    + (IF hasKey(m, "tool_calls") THEN count_tool_calls(m.tool_calls) ELSE 0)
    + count_text(m.name) + count_text(m.tool_call_id)

RECURSIVE sum_message_tokens(_)
sum_message_tokens(msgs) ==
    IF msgs = << >> THEN 0
    ELSE message_tokens(Head(msgs)) + sum_message_tokens(Tail(msgs))

count_message_tokens_per_message_format(msgs) ==
    IF \E i \in 1..Len(msgs) : message_throws(msgs[i])
    THEN <<"throw", "TypeError", "">>
    ELSE <<"value", FORMAT_TOKENS * Len(msgs) + sum_message_tokens(msgs)>>

count_message_tokens(msgs) ==
    IF \E i \in 1..Len(msgs) : message_throws(msgs[i])
    THEN <<"throw", "TypeError", "">>
    ELSE <<"value", FORMAT_TOKENS + sum_message_tokens(msgs)>>

\* Memory.get_recent_messages
get_recent_messages(msgs, n) == slice(msgs, 0 - n)

(***************************************************************************)
(* LLM: the gateway.  A gateway value `this` holds the fields the three calls read   *)
(* and write; an optional value is << >> when absent and <<v>> otherwise.  *)
(***************************************************************************)
MULTIMODAL_MODELS ==
    {"gpt-4-vision-preview", "gpt-4o", "gpt-4o-mini", "claude-3-opus-20240229",
     "claude-3-sonnet-20240229", "claude-3-haiku-20240307"}

ToolChoice == [NONE |-> "none", AUTO |-> "auto", REQUIRED |-> "required"]

TOOL_CHOICE_VALUES == {ToolChoice.NONE, ToolChoice.AUTO, ToolChoice.REQUIRED}

LLM(model_name, cap, total_in, total_out) ==
    [model |-> model_name, max_input_tokens |-> cap, total_input_tokens |-> total_in,
     total_completion_tokens |-> total_out]

update_token_count(this, input_tokens, completion_tokens) ==
    [this EXCEPT !.total_input_tokens = @ + input_tokens,
                !.total_completion_tokens = @ + completion_tokens]

\* `this.max_input_tokens ? ... : true`: undefined and 0 are both falsy
check_token_limit(this, input_tokens) ==
    IF this.max_input_tokens # << >> /\ this.max_input_tokens[1] # 0
    THEN this.total_input_tokens + input_tokens <= this.max_input_tokens[1]
    ELSE TRUE

\* what one attempt of a call leaves behind: the gateway, what it returned or threw,
\* whether the provider was invoked and with which messages, the input cost if it
\* was computed, and the caller's message list (plain records are changed in place)
Attempt(this, returned, called, sent, cost, msgs) ==
    [llm |-> this, ret |-> returned, called |-> called, sent |-> sent, cost |-> cost,
     messages |-> msgs]

Throw(class, message) == <<"throw", class, message>>

TokenLimitExceeded == Throw("TokenLimitExceeded", "Token limit exceeded")

\* the provider's answers: a rejection, or a response whose choices are absent,
\* empty, a choice without message, or a choice with a message
Response(status, choices, content, usage) ==
    [content |-> content, status |-> status, choices |-> choices, usage |-> usage]

\* response.usage?.prompt_tokens || 0 and response.usage?.completion_tokens (default 0)
prompt_tokens(response) == IF response.usage = << >> THEN 0 ELSE response.usage[1]

completion_tokens(response) == IF response.usage = << >> THEN 0 ELSE response.usage[2]

\* reading response.choices[0].message.content raises when a link is missing
content_unreadable(response) ==
    response.status = "null" \/ response.choices \in {"absent", "empty", "no_message"}

\* ask and ask_with_image, stream === false, from `await create` on
complete(this, msgs, cost, args, response, with_completion) ==
    IF response.status = "throw"
    THEN Attempt(this, Throw("APIError", "provider failure"), TRUE, msgs, <<cost>>, args)
    ELSE IF content_unreadable(response)
    THEN Attempt(this, Throw("TypeError", "Cannot read properties of undefined"), TRUE, msgs,
                 <<cost>>, args)
    ELSE IF response.content = ""
    THEN Attempt(this, Throw("ValueError", "Empty or invalid response from LLM"), TRUE, msgs,
                 <<cost>>, args)
    ELSE Attempt(update_token_count(this, prompt_tokens(response),
                     IF with_completion THEN completion_tokens(response) ELSE 0),
                 <<"value", response.content>>, TRUE, msgs, <<cost>>, args)

\* ask and ask_with_image, stream === true, after update_token_count(input_tokens);
\* response.content is the text of the collected chunks
stream_counted(counted, msgs, cost, args, response, with_completion) ==
    IF response.status = "throw"
    THEN Attempt(counted, Throw("APIError", "provider failure"), TRUE, msgs, <<cost>>, args)
    ELSE IF response.content = ""
    THEN Attempt(counted, Throw("ValueError", "Empty response from streaming LLM"), TRUE,
                 msgs, <<cost>>, args)
    ELSE Attempt(IF with_completion
                   THEN [counted EXCEPT !.total_completion_tokens =
                                            @ + count_text(response.content)]
                   ELSE counted,
                 <<"value", response.content>>, TRUE, msgs, <<cost>>, args)

\* ask and ask_with_image, stream === true, from update_token_count(input_tokens) on
complete_stream(this, msgs, cost, args, response, with_completion) ==
    stream_counted(update_token_count(this, cost, 0), msgs, cost, args, response,
                   with_completion)

\* from check_token_limit to the end of ask / ask_with_image
budgeted(this, msgs, args, stream, response, with_completion, input_tokens) ==
    IF input_tokens[1] = "throw"
    THEN Attempt(this, input_tokens, FALSE, << >>, << >>, args)
    ELSE IF ~check_token_limit(this, input_tokens[2])
    THEN Attempt(this, TokenLimitExceeded, FALSE, << >>, <<input_tokens[2]>>, args)
    ELSE IF stream
    THEN complete_stream(this, msgs, input_tokens[2], args, response, with_completion)
    ELSE complete(this, msgs, input_tokens[2], args, response, with_completion)

\* from count_message_tokens to the end of ask / ask_with_image
budget_then_complete(this, msgs, args, stream, response, with_completion) ==
    budgeted(this, msgs, args, stream, response, with_completion,
             count_message_tokens(msgs))

\* `if (system_msgs) ... format_messages(system_msgs, ...)`: nothing when absent
format_system(system_msgs, support_images) ==
    IF system_msgs = << >> THEN <<"value", << >>>>
    ELSE format_messages(system_msgs[1], support_images)

\* LLM.ask once both lists went through format_messages
ask_formatted(this, args, stream, response, system, formatted) ==
    IF system[1] = "throw" THEN Attempt(this, system, FALSE, << >>, << >>, args)
    ELSE IF formatted[1] = "throw" THEN Attempt(this, formatted, FALSE, << >>, << >>, args)
    ELSE budget_then_complete(this, system[2] \o formatted[2], args, stream, response, TRUE)

\* one attempt of LLM.ask
ask(this, msgs, system_msgs, stream, response) ==
    ask_formatted(this, msgs, stream, response,
                  format_system(system_msgs, this.model \in MULTIMODAL_MODELS),
                  format_messages(msgs, this.model \in MULTIMODAL_MODELS))

\* the images pushed onto the content of the last message
image_item(image) ==
    CASE image.kind = "string"    -> [text |-> image.url, type |-> "image_url"]
      [] image.kind = "url"       -> [text |-> image.url, type |-> "image_file"]
      [] image.kind = "image_url" -> [text |-> image.url, type |-> "image_url"]

RECURSIVE image_items(_)
image_items(images) ==
    IF images = << >> THEN << >> ELSE <<image_item(Head(images))>> \o image_items(Tail(images))

multimodal_content(content) ==
    IF content.kind = "string" THEN <<TextPart(content.text)>>
    ELSE IF content.kind = "array" THEN content.parts
    ELSE << >>

\* the index in the caller's list of the message that became the last formatted one
last_kept_index(msgs) ==
    CHOOSE i \in 1..Len(msgs) :
        /\ hasKey(IF msgs[i].cls = "Message" THEN to_dict(msgs[i]) ELSE msgs[i], "content")
        /\ \A j \in (i + 1)..Len(msgs) :
               ~hasKey(IF msgs[j].cls = "Message" THEN to_dict(msgs[j]) ELSE msgs[j], "content")

\* last_message.content = multimodal_content: a plain record is the caller's own object
caller_messages_after(msgs, last_message) ==
    IF msgs[last_kept_index(msgs)].cls = "dict"
    THEN [msgs EXCEPT ![last_kept_index(msgs)] = last_message]
    ELSE msgs

\* ask_with_image once the system messages went through format_messages
image_system(this, args, stream, response, with_images, system) ==
    IF system[1] = "throw" THEN Attempt(this, system, FALSE, << >>, << >>, args)
    ELSE budget_then_complete(this, system[2] \o with_images, args, stream, response, FALSE)

\* ask_with_image from `last_message.content = multimodal_content` on
image_attached(this, msgs, system_msgs, stream, response, formatted, last_message) ==
    image_system(this, caller_messages_after(msgs, last_message), stream, response,
                 [formatted EXCEPT ![Len(formatted)] = last_message],
                 format_system(system_msgs, TRUE))

\* ask_with_image from the test of the last message on
image_formatted(this, msgs, system_msgs, images, stream, response, formatted_messages) ==
    IF formatted_messages[1] = "throw"
    THEN Attempt(this, formatted_messages, FALSE, << >>, << >>, msgs)
    ELSE IF formatted_messages[2] = << >>
    THEN Attempt(this, Throw("TypeError", "Cannot read properties of undefined"), FALSE,
                 << >>, << >>, msgs)
    ELSE IF formatted_messages[2][Len(formatted_messages[2])].role # Role.USER
    THEN Attempt(this, Throw("ValueError",
                     "The last message must be from the user to attach images"),
                 FALSE, << >>, << >>, msgs)
    ELSE IF \E i \in 1..Len(images) : images[i].kind = "other"
    THEN Attempt(this, Throw("ValueError", "Unsupported image format"), FALSE, << >>,
                 << >>, msgs)
    ELSE image_attached(this, msgs, system_msgs, stream, response, formatted_messages[2],
             [formatted_messages[2][Len(formatted_messages[2])] EXCEPT
                  !.content = ArrayContent(multimodal_content(@) \o image_items(images)),
                  !.keys = @ \cup {"content"}])

\* one attempt of LLM.ask_with_image
ask_with_image(this, msgs, system_msgs, images, stream, response) ==
    IF this.model \notin MULTIMODAL_MODELS
    THEN Attempt(this, Throw("ValueError", "Model does not support images"), FALSE, << >>,
                 << >>, msgs)
    ELSE image_formatted(this, msgs, system_msgs, images, stream, response,
                         format_messages(msgs, TRUE))

\* `'type' in tools`: it is asked of the array, which has no such property
type_in_tools(tool_list) == FALSE

\* `if (tools)` with a list that has an element
has_tools(tool_list) == tool_list # << >> /\ tool_list[1] # << >>

\* ask_tool from `await create(params)` on
tool_response(this, args, response, sent, input_tokens) ==
    IF response.status = "throw"
    THEN Attempt(this, Throw("APIError", "provider failure"), TRUE, sent, <<input_tokens>>,
                 args)
    ELSE IF response.status = "null" \/ response.choices = "absent"
    THEN Attempt(this, <<"value", "null">>, TRUE, sent, <<input_tokens>>, args)
    ELSE IF response.choices = "empty"
    THEN Attempt(this, Throw("TypeError", "Cannot read properties of undefined"), TRUE, sent,
                 <<input_tokens>>, args)
    ELSE IF response.choices = "no_message"
    THEN Attempt(this, <<"value", "null">>, TRUE, sent, <<input_tokens>>, args)
    ELSE Attempt(update_token_count(this, prompt_tokens(response),
                                    completion_tokens(response)),
                 <<"value", [content |-> response.content]>>, TRUE, sent,
                 <<input_tokens>>, args)

\* ask_tool from check_token_limit on
tool_budgeted(this, args, tool_list, response, sent, input_tokens) ==
    IF ~check_token_limit(this, input_tokens)
    THEN Attempt(this, TokenLimitExceeded, FALSE, << >>, <<input_tokens>>, args)
    ELSE IF has_tools(tool_list)
            /\ \E i \in 1..Len(tool_list[1]) :
                   ~tool_list[1][i].is_object \/ ~type_in_tools(tool_list[1])
    THEN Attempt(this, Throw("ValueError", "Each tool must be a dict with 'type' field"),
                 FALSE, << >>, <<input_tokens>>, args)
    ELSE tool_response(this, args, response, sent, input_tokens)

\* ask_tool from the count of the tools on; tool_tokens is what count_tokens makes
\* of a tool descriptor, an object handed to the tokenizer where it expects a string
tool_counted(this, args, tool_list, response, tool_tokens, sent, message_cost) ==
    IF message_cost[1] = "throw"
    THEN Attempt(this, message_cost, FALSE, << >>, << >>, args)
    ELSE IF has_tools(tool_list) /\ tool_tokens[1] = "throw"
    THEN Attempt(this, Throw("TypeError", "tokenizer.encode of an object"), FALSE, << >>,
                 << >>, args)
    ELSE tool_budgeted(this, args, tool_list, response, sent,
             message_cost[2]
             + (IF has_tools(tool_list) THEN Len(tool_list[1]) * tool_tokens[2] ELSE 0))

\* ask_tool once `messages` has been assigned
tool_formatted(this, args, tool_list, response, tool_tokens, all) ==
    IF all[1] = "throw" THEN Attempt(this, all, FALSE, << >>, << >>, args)
    ELSE tool_counted(this, args, tool_list, response, tool_tokens, all[2],
                      count_message_tokens(all[2]))

\* system_msgs.concat(messages): the conversation messages as they were handed in
concat_unformatted(system, msgs) ==
    IF system[1] = "throw" THEN system ELSE <<"value", system[2] \o msgs>>

\* one attempt of LLM.ask_tool
ask_tool(this, msgs, system_msgs, tool_list, tool_choice, response, tool_tokens) ==
    IF tool_choice \notin TOOL_CHOICE_VALUES
    THEN Attempt(this, Throw("ValueError", "Invalid tool_choice"), FALSE, << >>, << >>, msgs)
    ELSE tool_formatted(this, msgs, tool_list, response, tool_tokens,
             IF system_msgs # << >>
             THEN concat_unformatted(
                      format_messages(system_msgs[1], this.model \in MULTIMODAL_MODELS), msgs)
             ELSE format_messages(msgs, this.model \in MULTIMODAL_MODELS))

(***************************************************************************)
(* @retry({ wait, stop: 6, retry: (error) => !(error instanceof            *)
(* TokenLimitExceeded) }) on the three calls.                              *)
(***************************************************************************)
RetryStop == 6

retry_predicate_any_error(error) == TRUE

\* the predicate handed to the decorator
retry_predicate(error) == error[2] # "TokenLimitExceeded"

\* the decorator after a failed attempt, `made` attempts having been made: whether
\* it waits and calls again (otherwise the error propagates)
retry_again(error, made) == retry_predicate(error) /\ made < RetryStop

(***************************************************************************)
(* The values every specification starts from where it does not draw them. *)
(***************************************************************************)
InitFrame ==
    /\ pc = "idle" /\ prevState = AgentState.IDLE /\ results = << >>
    /\ stepResult = "" /\ should_act = FALSE /\ err = FALSE
    /\ ret = "" /\ outcome = "none"

InitObs ==
    /\ attempts = 0 /\ rejections = 0 /\ interleaved = FALSE
    /\ entry_step = 0 /\ step_texts = << >> /\ fin_set = FALSE
    /\ think_calls = 0 /\ act_calls = 0 /\ detections = 0
    /\ appended = << >> /\ stuck_result = << >>

InitDefaultAgent ==
    /\ state = AgentState.IDLE /\ current_step = 0 /\ max_steps = 0
    /\ duplicate_threshold = 2 /\ next_step_prompt = << >> /\ orig_prompt = << >>

InitNoResult ==
    /\ res_a = ToolResult("", "", "", "") /\ res_b = res_a /\ res_c = res_a
    /\ res_out = << >>

InitNoRegistry ==
    /\ reg_kind = "collection" /\ tools = << >> /\ tool_map = << >>
    /\ clients = {} /\ transports = {} /\ reg_out = [op |-> "none"]

InitNoToolAgent ==
    /\ agent_kind = "base" /\ special_tool_names = << >> /\ cleanups = 0
    /\ tc_out = [op |-> "none"]

InitNoFormat == fmt_a = << >> /\ fmt_b = << >> /\ fmt_out = [op |-> "none"]

\* new LLM(...): both running totals start at 0; no cap, no call in progress
InitNoGateway ==
    /\ llm = LLM("gpt-4o", << >>, 0, 0)
    /\ gw_pc = "idle" /\ gw_call = [op |-> "none"] /\ gw_attempts = 0
    /\ gw_last = [op |-> "none"]

\* an agent that has no call in progress
NoCall == [pc |-> "idle", attempts |-> 0, cost |-> 0, call |-> [op |-> "none"],
           seen |-> 0, muts |-> 0]

InitNoShared == sh_agents = 1 /\ sh_started = 0 /\ sh_proc = [i \in 1..2 |-> NoCall]

InitNoLate == InitNoFormat /\ InitNoGateway /\ InitNoShared

InitExt == InitNoResult /\ InitNoRegistry /\ InitNoToolAgent /\ InitNoLate

(***************************************************************************)
(* SpecMemory: a Memory on its own, under every sequence of appends.       *)
(***************************************************************************)
MemMsgs == {user_message("X"), assistant_message("X"), assistant_message("Y")}

Batches == UNION {[1..n -> MemMsgs] : n \in 0..MaxBatch}

InitMemory ==
    /\ messages = << >>
    /\ max_messages \in 0..MaxCap
    /\ InitDefaultAgent /\ InitFrame /\ InitObs /\ InitExt

MemAddMessage ==
    \E m \in MemMsgs :
        /\ Len(appended) + 1 <= MaxAppends
        /\ messages' = add_message(messages, max_messages, m)
        /\ appended' = Append(appended, m)
        /\ UNCHANGED <<extVars, max_messages, agentVars, frameVars, attempts, rejections, interleaved,
                       entry_step, step_texts, fin_set, think_calls, act_calls, detections,
                       orig_prompt, stuck_result>>

MemAddMessages ==
    \E batch \in Batches :
        /\ Len(appended) + Len(batch) <= MaxAppends
        /\ messages' = add_messages(messages, max_messages, batch)
        /\ appended' = appended \o batch
        /\ UNCHANGED <<extVars, max_messages, agentVars, frameVars, attempts, rejections, interleaved,
                       entry_step, step_texts, fin_set, think_calls, act_calls, detections,
                       orig_prompt, stuck_result>>

NextMemory == MemAddMessage \/ MemAddMessages

SpecMemory == InitMemory /\ [][NextMemory]_vars

\* The most recent n elements of s, in order.
LastN(s, n) == SubSeq(s, Max(Len(s) - n, 0) + 1, Len(s))

\* C1: after every append the log holds at most max_messages messages, and they
\* are exactly the most recently appended max_messages messages in their order.
C1_CapAndMostRecent ==
    /\ Len(messages) <= max_messages
    /\ messages = LastN(appended, max_messages)

(***************************************************************************)
(* Spec: one agent.  step() is abstract in BaseAgent and think() / act()   *)
(* are abstract in ReActAgent, so what a think() or an act() does is       *)
(* chosen among the behaviours of the subclasses: it may append a message  *)
(* to memory, may set state to FINISHED, and returns or throws.            *)
(***************************************************************************)
Requests == {"", "X"}

ThinkMsgs == {assistant_message("X")}

ActMsgs == {tool_message("X")}

ActTexts == {"X"}

Prompts == {<< >>, <<"P">>}

DefaultDuplicateThreshold == 2

Appended(msgs, choice) ==
    IF choice = << >> THEN msgs ELSE add_message(msgs, max_messages, choice[1])

InitAgent ==
    /\ messages = << >>
    /\ max_messages = AgentMemCap
    /\ state \in AGENT_STATE_VALUES
    /\ current_step = 0
    /\ max_steps \in 0..MaxSteps
    /\ duplicate_threshold \in {1, DefaultDuplicateThreshold}
    /\ next_step_prompt \in Prompts
    /\ orig_prompt = next_step_prompt
    /\ InitFrame /\ InitObs /\ InitExt

\* run(request) is called: rejected unless the agent is IDLE; otherwise the
\* request is recorded and state_context(RUNNING, ...) is entered.
RunCall ==
    \E request \in Requests :
        /\ pc \in {"idle", "think", "act"}
        /\ attempts < MaxCalls
        /\ attempts' = attempts + 1
        /\ IF run_rejects(state)
             THEN /\ rejections' = rejections + 1
                  /\ UNCHANGED <<memVars, agentVars, frameVars, interleaved, entry_step,
                                 step_texts, fin_set>>
             ELSE IF pc # "idle"
             THEN /\ interleaved' = TRUE
                  /\ UNCHANGED <<memVars, agentVars, frameVars, rejections, entry_step,
                                 step_texts, fin_set>>
             ELSE /\ messages' = IF request # ""
                                   THEN add_message(messages, max_messages, user_message(request))
                                   ELSE messages
                  /\ results' = << >>
                  /\ prevState' = state
                  /\ state' = AgentState.RUNNING
                  /\ pc' = "loop"
                  /\ err' = FALSE /\ ret' = "" /\ outcome' = "none"
                  /\ entry_step' = current_step
                  /\ step_texts' = << >>
                  /\ fin_set' = FALSE
                  /\ UNCHANGED <<max_messages, current_step, max_steps, duplicate_threshold,
                                 next_step_prompt, stepResult, should_act, rejections,
                                 interleaved>>
        /\ UNCHANGED <<extVars, think_calls, act_calls, detections, orig_prompt, appended, stuck_result>>

\* The loop test, the increment and the call of step(), which calls think().
LoopTest ==
    /\ pc = "loop"
    /\ IF loop_continues(current_step, max_steps, state)
         THEN /\ current_step' = current_step + 1
              /\ pc' = "think"
              /\ think_calls' = 0 /\ act_calls' = 0
         ELSE /\ pc' = "exit"
              /\ UNCHANGED <<current_step, think_calls, act_calls>>
    /\ UNCHANGED <<extVars, memVars, state, max_steps, duplicate_threshold, next_step_prompt,
                   prevState, results, stepResult, should_act, err, ret, outcome,
                   attempts, rejections, interleaved, entry_step, step_texts, fin_set,
                   detections, orig_prompt, appended, stuck_result>>

\* think() completes: const should_act = await this.think()
Think ==
    \E msg \in {<< >>} \cup {<<m>> : m \in ThinkMsgs}, fin \in BOOLEAN,
       res \in {"true", "false", "throw"} :
        /\ pc = "think"
        /\ think_calls' = think_calls + 1
        /\ messages' = Appended(messages, msg)
        /\ state' = IF fin THEN AgentState.FINISHED ELSE state
        /\ fin_set' = (fin_set \/ fin)
        /\ IF res = "throw"
             THEN /\ err' = TRUE
                  /\ pc' = "catch"
                  /\ UNCHANGED <<should_act, stepResult, step_texts>>
             ELSE /\ should_act' = (res = "true")
                  /\ IF step_calls_act(should_act')
                       THEN /\ pc' = "act"
                            /\ UNCHANGED <<stepResult, step_texts>>
                       ELSE /\ stepResult' = NoActionText
                            /\ step_texts' = Append(step_texts, NoActionText)
                            /\ pc' = "post_step"
                  /\ UNCHANGED err
        /\ UNCHANGED <<extVars, max_messages, current_step, max_steps, duplicate_threshold,
                       next_step_prompt, prevState, results, ret, outcome, attempts,
                       rejections, interleaved, entry_step, act_calls, detections,
                       orig_prompt, appended, stuck_result>>

\* act() completes: return await this.act()
Act ==
    \E msg \in {<< >>} \cup {<<m>> : m \in ActMsgs}, fin \in BOOLEAN,
       res \in {<<"throw">>} \cup {<<"return", t>> : t \in ActTexts} :
        /\ pc = "act"
        /\ act_calls' = act_calls + 1
        /\ messages' = Appended(messages, msg)
        /\ state' = IF fin THEN AgentState.FINISHED ELSE state
        /\ fin_set' = (fin_set \/ fin)
        /\ IF res[1] = "throw"
             THEN /\ err' = TRUE
                  /\ pc' = "catch"
                  /\ UNCHANGED <<stepResult, step_texts>>
             ELSE /\ stepResult' = res[2]
                  /\ step_texts' = Append(step_texts, res[2])
                  /\ pc' = "post_step"
                  /\ UNCHANGED err
        /\ UNCHANGED <<extVars, max_messages, current_step, max_steps, duplicate_threshold,
                       next_step_prompt, prevState, results, should_act, ret, outcome,
                       attempts, rejections, interleaved, entry_step, think_calls,
                       detections, orig_prompt, appended, stuck_result>>

\* if (this.is_stuck()) this.handle_stuck_state(); results.push(`Step ...`)
PostStep ==
    /\ pc = "post_step"
    /\ LET stuck == is_stuck(messages, duplicate_threshold)
       IN  /\ next_step_prompt' = IF stuck THEN handle_stuck_state(next_step_prompt)
                                           ELSE next_step_prompt
           /\ detections' = IF stuck THEN detections + 1 ELSE detections
    /\ results' = Append(results, StepLine(current_step, stepResult))
    /\ pc' = "loop"
    /\ UNCHANGED <<extVars, memVars, state, current_step, max_steps, duplicate_threshold,
                   prevState, stepResult, should_act, err, ret, outcome,
                   attempts, rejections, interleaved, entry_step, step_texts, fin_set,
                   think_calls, act_calls, orig_prompt, appended, stuck_result>>

\* After the loop: the budget branch and the return value.
LoopExit ==
    /\ pc = "exit"
    /\ IF budget_exhausted(current_step, max_steps)
         THEN /\ current_step' = 0
              /\ state' = AgentState.IDLE
              /\ results' = Append(results, TerminatedLine(max_steps))
         ELSE UNCHANGED <<current_step, state, results>>
    /\ ret' = run_return(results')
    /\ pc' = "finally"
    /\ UNCHANGED <<extVars, memVars, max_steps, duplicate_threshold, next_step_prompt,
                   prevState, stepResult, should_act, err, outcome, obsVars>>

\* state_context: catch (e) { this.state = AgentState.ERROR; throw e; }
Catch ==
    /\ pc = "catch"
    /\ state' = state_context_catch(state)
    /\ pc' = "finally"
    /\ UNCHANGED <<extVars, memVars, current_step, max_steps, duplicate_threshold, next_step_prompt,
                   prevState, results, stepResult, should_act, err, ret, outcome, obsVars>>

\* state_context: finally { this.state = prevState; }, then run() returns or rethrows.
Finally ==
    /\ pc = "finally"
    /\ state' = state_context_finally(state, prevState)
    /\ outcome' = IF err THEN "threw" ELSE "returned"
    /\ pc' = "idle"
    /\ UNCHANGED <<extVars, memVars, current_step, max_steps, duplicate_threshold, next_step_prompt,
                   prevState, results, stepResult, should_act, err, ret, obsVars>>

Next == RunCall \/ LoopTest \/ Think \/ Act \/ PostStep \/ LoopExit \/ Catch \/ Finally

Spec == InitAgent /\ [][Next]_vars

(***************************************************************************)
(* Properties of run(), checked under Spec.                                *)
(***************************************************************************)
\* The 'Step i: ...' lines of a run accepted at step counter e whose steps returned texts.
StepLines(e, texts) == [j \in 1..Len(texts) |-> StepLine(e + j, texts[j])]

C3_StepOnlyWithinBudget ==
    [][/\ (pc' = "think" /\ pc # "think")
            => /\ pc = "loop"
               /\ current_step < max_steps
               /\ state # "FINISHED"
               /\ ~fin_set
               /\ current_step' = current_step + 1
       /\ (pc' \in {"think", "act", "post_step"} => current_step' <= max_steps)]_vars

C3_Witness == pc = "exit" /\ fin_set /\ current_step < max_steps

\* C4: a run() that returns without any step having set FINISHED has reset the
\* step counter to 0, leaves state IDLE, and returns one 'Step i: ...' line per
\* executed step followed by 'Terminated: Reached max steps (<max_steps>)'.
C4_BudgetExit ==
    (pc = "idle" /\ outcome = "returned" /\ ~fin_set)
        => /\ current_step = 0
           /\ state = "IDLE"
           /\ ret = join(StepLines(entry_step, step_texts) \o <<TerminatedLine(max_steps)>>, "\n")

C4_Witness ==
    /\ pc = "idle" /\ outcome = "returned" /\ ~fin_set
    /\ max_steps = 1
    /\ ret = "Step 1: X\nTerminated: Reached max steps (1)"

\* C5: a run() that returns after a step set FINISHED returns the step lines
\* only, without a 'Terminated: Reached max steps' line, and its step counter
\* is not reset, at whichever step from 1 to max_steps FINISHED was reached.
C5_FinishedExitHasNoNotice ==
    (pc = "idle" /\ outcome = "returned" /\ fin_set)
        => /\ ret = join(StepLines(entry_step, step_texts), "\n")
           /\ current_step = entry_step + Len(step_texts)

\* C6: a failure thrown by step() enters the catch clause, which forces state
\* to ERROR before the rethrow; the failure reaches the caller of run(); and
\* every exit of the scoped transition restores the state held before RUNNING.
C6_ErrorThenRestore ==
    [][/\ (err' /\ ~err) => pc' = "catch"
       /\ pc = "catch" => (state' = "ERROR" /\ err' /\ pc' = "finally")
       /\ (pc = "finally" /\ err) => (state = "ERROR" /\ outcome' = "threw")
       /\ pc = "finally" => (state' = prevState /\ prevState = "IDLE" /\ pc' = "idle")]_vars

C6_Witness == pc = "idle" /\ outcome = "threw" /\ state = "IDLE" /\ attempts >= 1

\* C7: run() returns the 'Step i: <result of step i>' lines joined by newlines
\* in execution order (with or without the closing notice), and returns
\* 'No steps executed' whenever it executed no step.
C7_ReturnValue ==
    (pc = "idle" /\ outcome = "returned")
        => IF Len(step_texts) = 0
             THEN ret = "No steps executed"
             ELSE ret \in {join(StepLines(entry_step, step_texts), "\n"),
                           join(StepLines(entry_step, step_texts)
                                    \o <<TerminatedLine(max_steps)>>, "\n")}

\* k copies of the corrective instruction, each followed by a newline.
RECURSIVE StuckCopies(_)
StuckCopies(k) == IF k = 0 THEN "" ELSE stuckPrompt \o "\n" \o StuckCopies(k - 1)

\* C9: after k detections next_step_prompt is k copies of the corrective
\* instruction in front of the original prompt; a detection adds exactly one
\* copy and changes neither state, step counter, budget nor memory, and the
\* loop goes on to its next test.
C9_StuckIsCumulativeAndAdvisory ==
    [][/\ next_step_prompt' =
              IF detections' = 0 THEN orig_prompt
              ELSE <<StuckCopies(detections')
                        \o (IF orig_prompt = << >> THEN "" ELSE orig_prompt[1])>>
       /\ (detections' # detections)
            => /\ detections' = detections + 1
               /\ pc = "post_step" /\ pc' = "loop"
               /\ UNCHANGED <<state, current_step, max_steps, memVars>>]_vars

C9_Witness == detections >= 2 /\ orig_prompt = <<"P">> /\ pc = "loop"

\* C10: a step calls think() exactly once; it calls act() exactly once, after
\* think(), if and only if think() returned true; when think() returned false
\* the step result is 'Thinking complete - no action needed'.
C10_ThinkThenMaybeAct ==
    /\ pc = "act" => (think_calls = 1 /\ act_calls = 0 /\ should_act)
    /\ pc = "post_step"
         => /\ think_calls = 1
            /\ act_calls = (IF should_act THEN 1 ELSE 0)
            /\ (~should_act => stepResult = NoActionText)

C10_Witness == pc = "post_step" /\ should_act /\ step_texts = <<NoActionText, "X">>

\* C35: once run() has exited (returned after budget exhaustion, returned after
\* FINISHED, or thrown after a failed step) the state is IDLE, and the next
\* run() on the same agent is accepted.
C35_IdleAfterRun ==
    [][/\ (pc' = "idle" /\ outcome' # "none") => state' = AgentState.IDLE
       /\ (pc = "idle" /\ outcome # "none" /\ attempts' # attempts)
            => (rejections' = rejections /\ pc' = "loop"
                /\ state' = AgentState.RUNNING)]_vars

C35_Witness ==
    /\ pc = "idle" /\ outcome = "returned" /\ fin_set /\ state = AgentState.IDLE
    /\ attempts = 2 /\ rejections = 0

\* C36 as stated: every accepted run() starts with the step counter at 0,
\* however the previous run ended.
C36_RunStartsAtZero == pc # "idle" => entry_step = 0

\* the step counter a run left behind: it counts the steps that returned, and
\* the failed step if there was one
CounterLeft == entry_step + Len(step_texts) + (IF outcome = "threw" THEN 1 ELSE 0)

\* C36 as amended: an accepted run() starts with the counter at 0 on a new
\* agent and after a run that returned with the counter at max_steps; after a
\* run that returned on FINISHED below max_steps or threw on a failed step it
\* starts with the counter that run left, and counter plus executed steps
\* never exceeds max_steps.
C36_RunStartsWhereLastRunLeft ==
    [][/\ (pc = "idle" /\ pc' = "loop")
            => /\ entry_step' = current_step
               /\ outcome = "none" => current_step = 0
               /\ (outcome = "returned" /\ CounterLeft >= max_steps) => current_step = 0
               /\ (outcome = "returned" /\ CounterLeft < max_steps)
                    => current_step = CounterLeft
               /\ outcome = "threw" => current_step = CounterLeft
       /\ pc' # "idle" => entry_step' + Len(step_texts') <= max_steps']_vars

C36_Witness ==
    /\ pc = "post_step" /\ entry_step = 1 /\ current_step = 2 /\ max_steps = 2
    /\ attempts = 2 /\ rejections = 0

(***************************************************************************)
(* SpecStuck: is_stuck() evaluated on every memory content up to           *)
(* MaxStuckLen messages and every threshold up to MaxThreshold.            *)
(***************************************************************************)
DefaultMaxMessages == 100

StuckMsgs == {assistant_message("X"), assistant_message("Y"), assistant_message(""),
              user_message("X")}

StuckLogs == UNION {[1..n -> StuckMsgs] : n \in 0..MaxStuckLen}

InitStuck ==
    /\ messages \in StuckLogs
    /\ max_messages = DefaultMaxMessages
    /\ state = AgentState.IDLE /\ current_step = 0 /\ max_steps = 0
    /\ duplicate_threshold \in 0..MaxThreshold
    /\ next_step_prompt = << >> /\ orig_prompt = << >>
    /\ InitFrame /\ InitObs /\ InitExt

CheckStuck ==
    /\ stuck_result = << >>
    /\ stuck_result' = <<is_stuck(messages, duplicate_threshold)>>
    /\ UNCHANGED <<extVars, memVars, agentVars, frameVars, attempts, rejections, interleaved,
                   entry_step, step_texts, fin_set, think_calls, act_calls, detections,
                   orig_prompt, appended>>

NextStuck == CheckStuck

SpecStuck == InitStuck /\ [][NextStuck]_vars

\* Number of messages of log before position n with role assistant and content c.
RECURSIVE EarlierAssistant(_, _, _)
EarlierAssistant(log, n, c) ==
    IF n <= 1 THEN 0
    ELSE EarlierAssistant(log, n - 1, c)
            + (IF log[n - 1].role = "assistant" /\ log[n - 1].content = c THEN 1 ELSE 0)

\* The most recent message has non-empty content and at least
\* duplicate_threshold earlier assistant messages carry the same content.
LastIsRepeated ==
    /\ Len(messages) >= 1
    /\ messages[Len(messages)].content # ""
    /\ EarlierAssistant(messages, Len(messages), messages[Len(messages)].content)
            >= duplicate_threshold

\* C8 (as stated): is_stuck() is true exactly when the most recent message has
\* non-empty content and at least duplicate_threshold earlier assistant messages
\* carry exactly the same content, for every memory and every threshold >= 0.
C8_StuckExactlyWhenRepeated ==
    stuck_result # << >> => (stuck_result[1] <=> LastIsRepeated)

\* C8 (amended): is_stuck() is true exactly when memory holds at least two
\* messages, the most recent one has non-empty content and at least
\* duplicate_threshold earlier assistant messages carry exactly the same content.
C8_StuckExactlyWhenRepeatedOfTwo ==
    stuck_result # << >> => (stuck_result[1] <=> (Len(messages) >= 2 /\ LastIsRepeated))

C8_Witness ==
    /\ stuck_result = <<TRUE>>
    /\ duplicate_threshold = 2
    /\ messages = <<assistant_message("X"), assistant_message("X"), assistant_message("X")>>

(***************************************************************************)
(* SpecResult: isTruthy() and add() applied to ToolResult values.          *)
(***************************************************************************)
ToolResults ==
    {ToolResult(o, e, b, y) : o \in {"", "a", "b"}, e \in {"", "e"}, b \in {"", "i"},
                              y \in {"", "s"}}

InitResult ==
    /\ messages = << >> /\ max_messages = DefaultMaxMessages
    /\ InitDefaultAgent /\ InitFrame /\ InitObs
    /\ res_a \in ToolResults /\ res_b \in ToolResults /\ res_c \in ToolResults
    /\ res_out = << >>
    /\ InitNoRegistry /\ InitNoToolAgent /\ InitNoLate

\* res_a.isTruthy()
ResIsTruthy ==
    /\ res_out = << >>
    /\ res_out' = <<"isTruthy", isTruthy(res_a)>>
    /\ UNCHANGED <<memVars, agentVars, frameVars, obsVars, regVars, tcVars, lateVars, res_a, res_b,
                   res_c>>

\* res_a.add(res_b)
ResAdd ==
    /\ res_out = << >>
    /\ res_out' = <<"add", add(res_a, res_b)>>
    /\ UNCHANGED <<memVars, agentVars, frameVars, obsVars, regVars, tcVars, lateVars, res_a, res_b,
                   res_c>>

\* res_a.add(res_b).add(res_c) and res_a.add(res_b.add(res_c))
ResAddThree ==
    /\ res_out = << >>
    /\ res_out' = <<"add3", addTo(add(res_a, res_b), res_c),
                             LET bc == add(res_b, res_c)
                             IN  IF bc[1] = "throw" THEN bc ELSE add(res_a, bc[2])>>
    /\ UNCHANGED <<memVars, agentVars, frameVars, obsVars, regVars, tcVars, lateVars, res_a, res_b,
                   res_c>>

NextResult == ResIsTruthy \/ ResAdd \/ ResAddThree

SpecResult == InitResult /\ [][NextResult]_vars

AllEmpty(r) == r.output = "" /\ r.error = "" /\ r.base64_image = "" /\ r.system = ""

\* C19: a ToolResult is truthy exactly when at least one of output, error,
\* attachment and system note is non-empty.
C19_TruthyIffSomeFieldNonEmpty ==
    (res_out # << >> /\ res_out[1] = "isTruthy")
        => (res_out[2] <=> ~AllEmpty(res_a))

C19_Witness ==
    /\ res_out = <<"isTruthy", TRUE>>
    /\ res_a.output = "" /\ res_a.error = "" /\ res_a.base64_image = "" /\ res_a.system = "s"

\* C20: add() concatenates output, error and system left then right, keeps the
\* single non-empty attachment, fails exactly when both sides carry an
\* attachment, returns the other side unchanged when one side is all-empty,
\* and is associative on the text fields.
C20_MergeLaw ==
    /\ (res_out # << >> /\ res_out[1] = "add") =>
          LET r == res_out[2]
              both == res_a.base64_image # "" /\ res_b.base64_image # ""
          IN  /\ (r[1] = "throw") <=> both
              /\ r[1] = "value" =>
                    /\ r[2].output = res_a.output \o res_b.output
                    /\ r[2].error = res_a.error \o res_b.error
                    /\ r[2].system = res_a.system \o res_b.system
                    /\ r[2].base64_image =
                          (IF res_a.base64_image # "" THEN res_a.base64_image
                                                      ELSE res_b.base64_image)
              /\ AllEmpty(res_b) => r = <<"value", res_a>>
              /\ AllEmpty(res_a) => r = <<"value", res_b>>
    /\ (res_out # << >> /\ res_out[1] = "add3") =>
          LET l == res_out[2]
              r == res_out[3]
          IN  (l[1] = "value" /\ r[1] = "value") =>
                  /\ l[2].output = r[2].output
                  /\ l[2].error = r[2].error
                  /\ l[2].system = r[2].system

C20_Witness ==
    /\ res_out # << >> /\ res_out[1] = "add" /\ res_out[2][1] = "value"
    /\ res_out[2][2].output = "ab" /\ res_out[2][2].base64_image = "i"
    /\ res_a.output = "a" /\ res_b.output = "b"

(***************************************************************************)
(* SpecRegistry: a tool registry under registrations, invocations and, for *)
(* an MCPClients registry, connects and disconnects.                       *)
(***************************************************************************)
NameA == <<"a">>
NameB == <<"b">>
NameZ == <<"z">>

LocalTool(name, uid, behaviour) ==
    [name |-> name, uid |-> uid, server_id |-> << >>, original_name |-> name,
     behaviour |-> behaviour]

\* what a tool's execute() can do: return a result, or throw a ToolError, an
\* instance of a class that extends ToolError, or any other error
Behaviours == {"returns", "ToolError", "DerivedToolError", "Error"}

LocalTools ==
    {LocalTool(NameA, 1, "returns"), LocalTool(NameA, 2, "DerivedToolError"),
     LocalTool(NameB, 3, "ToolError"), LocalTool(NameB, 4, "Error")}

\* the tools offered to a registry of the given kind
OfferedTools(kind) ==
    IF kind = "mcp" THEN {LocalTool(NameA, 1, "returns")} ELSE LocalTools

MaxToolList == 2

ToolLists(kind) == UNION {[1..n -> OfferedTools(kind)] : n \in 0..MaxToolList}

ServerIds == {<<"s">>, <<"s", "!">>}

ListedX == [name |-> <<"x">>, behaviour |-> "returns"]
ListedY == [name |-> <<"y">>, behaviour |-> "rejects"]

Catalogs == {<< >>, <<ListedX>>, <<ListedX, ListedY>>}

InvokedNames == {NameA, NameB, NameZ, mcp_tool_name(<<"s">>, <<"x">>)}

CurrentRegistry == Registry(tools, tool_map, clients, transports)

SetRegistry(reg) ==
    /\ tools' = reg.tools /\ tool_map' = reg.tool_map
    /\ clients' = reg.clients /\ transports' = reg.transports

InitRegistry ==
    /\ messages = << >> /\ max_messages = DefaultMaxMessages
    /\ InitDefaultAgent /\ InitFrame /\ InitObs /\ InitNoResult /\ InitNoToolAgent
    /\ InitNoLate
    /\ \/ /\ reg_kind = "collection"
          /\ \E ts \in ToolLists("collection") :
                 tools = ts /\ tool_map = ToolCollection(ts).tool_map
       \/ /\ reg_kind = "mcp"
          /\ tools = << >> /\ tool_map = ToolCollection(<< >>).tool_map
    /\ clients = {} /\ transports = {}
    /\ reg_out = [op |-> "none"]

RegFrame ==
    UNCHANGED <<memVars, agentVars, frameVars, obsVars, resVars, tcVars, lateVars, reg_kind>>

RegAddTool ==
    \E tool \in OfferedTools(reg_kind) :
        /\ SetRegistry(add_tool(CurrentRegistry, tool))
        /\ reg_out' = [op |-> "add_tool", tool |-> tool, pre |-> CurrentRegistry,
                       threw |-> FALSE]
        /\ RegFrame

RegAddTools ==
    \E ts \in ToolLists(reg_kind) :
        /\ SetRegistry(add_tools(CurrentRegistry, ts))
        /\ reg_out' = [op |-> "add_tools", batch |-> ts, pre |-> CurrentRegistry,
                       threw |-> FALSE]
        /\ RegFrame

RegExcute ==
    \E name \in InvokedNames :
        LET r == excute(CurrentRegistry, name)
        IN  /\ reg_out' = [op |-> "excute", name |-> name, pre |-> CurrentRegistry,
                           ret |-> r.ret, executed |-> r.executed]
            /\ UNCHANGED <<tools, tool_map, clients, transports>>
            /\ RegFrame

RegExcuteAll ==
    LET r == excute_all(CurrentRegistry)
    IN  /\ reg_out' = [op |-> "excute_all", pre |-> CurrentRegistry,
                       ret |-> r.ret, executed |-> r.executed]
        /\ UNCHANGED <<tools, tool_map, clients, transports>>
        /\ RegFrame

RegConnect ==
    \E id \in ServerIds, listed \in Catalogs, close_fails \in BOOLEAN,
       connect_fails \in BOOLEAN, list_fails \in BOOLEAN :
        /\ reg_kind = "mcp"
        /\ close_fails => id \in clients
        /\ connect_fails => ~list_fails /\ listed = << >>
        /\ list_fails => listed = << >>
        /\ LET r == connect(CurrentRegistry, id, listed, close_fails, connect_fails,
                            list_fails)
           IN  /\ SetRegistry(r.reg)
               /\ reg_out' = [op |-> "connect", id |-> id, listed |-> listed,
                              pre |-> CurrentRegistry, threw |-> r.threw,
                              close_failed |-> close_fails]
        /\ RegFrame

RegDisconnect ==
    \E id \in ServerIds, close_fails \in BOOLEAN :
        /\ reg_kind = "mcp"
        /\ close_fails => id \in clients
        /\ SetRegistry(disconnect_server(CurrentRegistry, id, close_fails))
        /\ reg_out' = [op |-> "disconnect", id |-> id, pre |-> CurrentRegistry,
                       threw |-> FALSE, close_failed |-> close_fails]
        /\ RegFrame

RegDisconnectAll ==
    \E failing \in SUBSET clients :
        /\ reg_kind = "mcp"
        /\ SetRegistry(disconnect_all(CurrentRegistry, failing))
        /\ reg_out' = [op |-> "disconnect_all", pre |-> CurrentRegistry,
                       threw |-> FALSE, close_failed |-> failing]
        /\ RegFrame

NextRegistry ==
    RegAddTool \/ RegAddTools \/ RegExcute \/ RegExcuteAll
        \/ RegConnect \/ RegDisconnect \/ RegDisconnectAll

SpecRegistry == InitRegistry /\ [][NextRegistry]_vars

\* a tool of that name is in the tools sequence or under that key in the name map
Registered(reg, name) ==
    \/ \E i \in 1..Len(reg.tools) : reg.tools[i].name = name
    \/ mapHas(reg.tool_map, name)

OnlyErrorSet(r) == r.error # "" /\ r.output = "" /\ r.base64_image = "" /\ r.system = ""

\* C15: invoking a name that is not registered returns a ToolResult whose only
\* non-empty field is error, throws nothing and executes no tool, whatever
\* registrations, connects and disconnects came before.
C15_UnknownNameIsErrorResult ==
    (reg_out.op = "excute" /\ ~Registered(reg_out.pre, reg_out.name)) =>
        /\ reg_out.ret[1] = "value"
        /\ OnlyErrorSet(reg_out.ret[2])
        /\ reg_out.executed = << >>

C15_Witness ==
    /\ reg_out.op = "excute" /\ reg_kind = "mcp"
    /\ reg_out.name = mcp_tool_name(<<"s">>, <<"x">>)
    /\ ~Registered(reg_out.pre, reg_out.name)
    /\ Len(tools) >= 2 /\ clients # {}
    /\ reg_out.ret[1] = "value" /\ reg_out.executed = << >>

\* the error kinds that are a ToolError: the class itself and every class derived from it
IsToolError(proto) == proto \in {"ToolError", "DerivedToolError"}

\* C16: invoking a registered tool whose execute throws a ToolError, or an error
\* of a kind derived from ToolError, returns an error-carrying ToolResult with
\* that error's message; any other failure propagates unchanged.
C16_ToolErrorBecomesResult ==
    (reg_out.op = "excute" /\ reg_out.executed # << >>
         /\ execute(reg_out.executed[1])[1] = "throw") =>
        LET e == execute(reg_out.executed[1])[2]
        IN  IF IsToolError(e.proto)
              THEN reg_out.ret = <<"value", ToolFailure(e.message)>>
              ELSE reg_out.ret = <<"throw", e>>

RECURSIVE ExpectedAll(_)
\* the entries the claim gives invokeAll for a sequence of tools
ExpectedAll(ts) ==
    IF ts = << >> THEN << >>
    ELSE LET r == execute(ts[1])
         IN  IF r[1] = "value" THEN <<r[2]>> \o ExpectedAll(Tail(ts))
             ELSE IF IsToolError(r[2].proto)
               THEN <<ToolFailure(r[2].message)>> \o ExpectedAll(Tail(ts))
             ELSE ExpectedAll(Tail(ts))

\* C17: invokeAll executes every registered tool once, in registration order,
\* returns the results of the tools that succeeded or raised a tool error in
\* that order, drops the tools that failed otherwise, and never throws.
C17_InvokeAllCollectsInOrder ==
    reg_out.op = "excute_all" =>
        /\ reg_out.ret[1] = "value"
        /\ reg_out.executed = reg_out.pre.tools
        /\ reg_out.ret[2] = ExpectedAll(reg_out.pre.tools)

\* C18: registering a tool under a name that is already registered changes
\* neither the tools sequence nor the name map, raises nothing, and lookup by
\* that name keeps returning the tool it returned before.
C18_DuplicateRegistrationIsNoOp ==
    (reg_out.op = "add_tool" /\ Registered(reg_out.pre, reg_out.tool.name)) =>
        /\ tools = reg_out.pre.tools
        /\ tool_map = reg_out.pre.tool_map
        /\ ~reg_out.threw
        /\ get_tool(CurrentRegistry, reg_out.tool.name)
               = get_tool(reg_out.pre, reg_out.tool.name)
        /\ get_tool(CurrentRegistry, reg_out.tool.name) # << >>

C18_Witness ==
    /\ reg_out.op = "add_tool" /\ reg_out.tool.uid = 2
    /\ Registered(reg_out.pre, NameA)
    /\ get_tool(CurrentRegistry, NameA) = <<LocalTool(NameA, 1, "returns")>>
    /\ Len(tools) >= 2

\* the tools a registry maps whose server_id is id
ToolsOf(reg, id) == {reg.tool_map[k][2] : k \in {j \in 1..Len(reg.tool_map) :
                                                     reg.tool_map[j][2].server_id = id}}

\* the tools a registry maps that did not come from the server id
ToolsNotOf(reg, id) == {reg.tool_map[k][2] : k \in {j \in 1..Len(reg.tool_map) :
                                                        reg.tool_map[j][2].server_id # id}}

\* the tools in the sequence of a registry
ToolsListed(reg) == {reg.tools[i] : i \in 1..Len(reg.tools)}

\* C33: disconnecting a connected server removes from the name map and from the
\* tools sequence exactly the tools of that server, keeps every other tool, and
\* leaves no client or transport entry for it, also when closing fails.
C33_DisconnectRemovesOwnTools ==
    (reg_out.op = "disconnect" /\ reg_out.id \in reg_out.pre.clients) =>
        /\ ToolsOf(CurrentRegistry, reg_out.id) = {}
        /\ ToolsNotOf(CurrentRegistry, reg_out.id) = ToolsNotOf(reg_out.pre, reg_out.id)
        /\ ToolsListed(CurrentRegistry) = ToolsNotOf(reg_out.pre, reg_out.id)
        /\ reg_out.id \notin clients
        /\ reg_out.id \notin transports
        /\ clients = reg_out.pre.clients \ {reg_out.id}

\* C34: a connect that completes under a server id that was already connected
\* leaves for that id exactly the tools of the newly listed catalog, and no
\* tool that only the previous connection offered, whether or not closing the
\* old connection failed.
C34_ReconnectReplacesCatalog ==
    (reg_out.op = "connect" /\ ~reg_out.threw /\ reg_out.id \in reg_out.pre.clients) =>
        /\ ToolsOf(CurrentRegistry, reg_out.id)
               = {MCPClientTool(reg_out.id, reg_out.listed[i]) :
                      i \in 1..Len(reg_out.listed)}
        /\ \A t \in ToolsOf(reg_out.pre, reg_out.id) :
               (\A i \in 1..Len(reg_out.listed) : reg_out.listed[i].name # t.original_name)
                   => ~Registered(CurrentRegistry, t.name)

\* C37: the tools sequence and the name map hold the same tools: no two tools of
\* the sequence share a name, lookup of the name of a tool of the sequence
\* returns that tool, and every mapped tool is in the sequence.
C37_SequenceAndMapAgree ==
    /\ \A i, j \in 1..Len(tools) : tools[i].name = tools[j].name => i = j
    /\ \A i \in 1..Len(tools) : get_tool(CurrentRegistry, tools[i].name) = <<tools[i]>>
    /\ \A k \in 1..Len(tool_map) : tool_map[k][2] \in ToolsListed(CurrentRegistry)

\* C39: distinct (server id, original name) pairs get distinct registry names,
\* and a connect that completes leaves every tool of the other connected
\* servers registered under its own name.
C39_SourcesNeverReplaceOneAnother ==
    (reg_out.op = "connect" /\ ~reg_out.threw) =>
        \A t \in ToolsNotOf(reg_out.pre, reg_out.id) :
            /\ \A i \in 1..Len(reg_out.listed) :
                   t.name # mcp_tool_name(reg_out.id, reg_out.listed[i].name)
            /\ get_tool(CurrentRegistry, t.name) = <<t>>

(***************************************************************************)
(* SpecToolCall: run() of a ToolCallAgent and of an MCPAgent, with the     *)
(* think() and act() these classes define, and direct calls of act() and   *)
(* of MCPAgent._handle_special_tool().                                     *)
(***************************************************************************)
DefaultMCPMaxSteps == 20

TerminateTool == LocalTool(TerminateName, 5, "returns")

\* the tool calls a model response proposes: [id, name]
ProposedCalls ==
    {<< >>, <<[id |-> "c1", name |-> TerminateName]>>,
     <<[id |-> "c1", name |-> NameA], [id |-> "c2", name |-> TerminateName]>>}

HandledNames == {TerminateName, <<"T", "e", "r", "m", "i", "n", "a", "t", "e">>, NameA}

\* an MCPClients that was connected to server "s" listing one tool
ConnectedRegistry ==
    connect(ToolCollection(<< >>), <<"s">>, <<ListedX>>, FALSE, FALSE, FALSE).reg

InitToolCall ==
    /\ messages = << >> /\ max_messages = DefaultMaxMessages
    /\ agent_kind \in {"toolcall", "mcp"}
    /\ special_tool_names = DefaultSpecialToolNames(agent_kind)
    /\ state \in AGENT_STATE_VALUES
    /\ current_step = 0
    /\ max_steps \in IF agent_kind = "mcp" THEN (1..MaxSteps) \cup {DefaultMCPMaxSteps}
                                           ELSE 0..MaxSteps
    /\ duplicate_threshold = DefaultDuplicateThreshold
    /\ next_step_prompt = <<"P">> /\ orig_prompt = next_step_prompt
    /\ IF agent_kind = "mcp"
         THEN /\ reg_kind = "mcp"
              /\ \E reg \in {ToolCollection(<< >>), ConnectedRegistry} :
                     /\ tools = reg.tools /\ tool_map = reg.tool_map
                     /\ clients = reg.clients /\ transports = reg.transports
         ELSE /\ reg_kind = "collection"
              /\ tools = <<TerminateTool>>
              /\ tool_map = ToolCollection(<<TerminateTool>>).tool_map
              /\ clients = {} /\ transports = {}
    /\ reg_out = [op |-> "none"]
    /\ cleanups = 0 /\ tc_out = [op |-> "none"]
    /\ InitFrame /\ InitObs /\ InitNoResult /\ InitNoLate

\* run(request): BaseAgent.run, which MCPAgent.run wraps in try/finally; a call
\* that fails the IDLE precondition leaves the try at once and runs the finally.
TCRunCall ==
    \E request \in Requests, failing \in SUBSET clients :
        /\ pc \in {"idle", "think"}
        /\ attempts < MaxCalls
        /\ attempts' = attempts + 1
        /\ IF run_rejects(state)
             THEN /\ rejections' = rejections + 1
                  /\ IF run_has_cleanup(agent_kind)
                       THEN /\ SetRegistry(MCPAgent_cleanup(CurrentRegistry, failing))
                            /\ cleanups' = cleanups + 1
                       ELSE /\ failing = {}
                            /\ UNCHANGED <<tools, tool_map, clients, transports, cleanups>>
                  /\ UNCHANGED <<memVars, agentVars, frameVars, entry_step, step_texts,
                                 fin_set>>
             ELSE /\ failing = {}
                  /\ messages' = IF request # ""
                                   THEN add_message(messages, max_messages, user_message(request))
                                   ELSE messages
                  /\ results' = << >>
                  /\ prevState' = state
                  /\ state' = AgentState.RUNNING
                  /\ pc' = "loop"
                  /\ err' = FALSE /\ ret' = "" /\ outcome' = "none"
                  /\ entry_step' = current_step
                  /\ step_texts' = << >>
                  /\ fin_set' = FALSE
                  /\ UNCHANGED <<max_messages, current_step, max_steps, duplicate_threshold,
                                 next_step_prompt, stepResult, should_act, rejections,
                                 tools, tool_map, clients, transports, cleanups>>
        /\ UNCHANGED <<interleaved, think_calls, act_calls, detections, orig_prompt, appended,
                       stuck_result, resVars, lateVars, reg_kind, reg_out, agent_kind,
                       special_tool_names, tc_out>>

\* think() of the agent's class, called by step()
TCThink ==
    \E notices \in RefreshNotices :
        /\ pc = "think"
        /\ think_calls' = think_calls + 1
        /\ IF agent_kind = "mcp" /\ mcp_unavailable(CurrentRegistry)
             THEN /\ notices = << >>
                  /\ state' = AgentState.FINISHED
                  /\ fin_set' = TRUE
                  /\ should_act' = FALSE
                  /\ stepResult' = NoActionText
                  /\ step_texts' = Append(step_texts, NoActionText)
                  /\ pc' = "post_step"
                  /\ UNCHANGED <<messages, err>>
             ELSE /\ IF agent_kind = "mcp" /\ refresh_due(current_step)
                       THEN messages' = add_messages(messages, max_messages, notices)
                       ELSE notices = << >> /\ UNCHANGED messages
                  /\ ToolCallAgent_think[1] = "throw"
                  /\ err' = TRUE
                  /\ pc' = "catch"
                  /\ UNCHANGED <<state, fin_set, should_act, stepResult, step_texts>>
        /\ UNCHANGED <<max_messages, current_step, max_steps, duplicate_threshold,
                       next_step_prompt, prevState, results, ret, outcome, attempts,
                       rejections, interleaved, entry_step, act_calls, detections,
                       orig_prompt, appended, stuck_result, extVars>>

\* state_context's finally, after which run() goes on to its own finally if it has one
TCFinally ==
    /\ pc = "finally"
    /\ state' = state_context_finally(state, prevState)
    /\ outcome' = IF err THEN "threw" ELSE "returned"
    /\ pc' = IF run_has_cleanup(agent_kind) THEN "cleanup" ELSE "idle"
    /\ UNCHANGED <<extVars, memVars, current_step, max_steps, duplicate_threshold,
                   next_step_prompt, prevState, results, stepResult, should_act, err, ret,
                   obsVars>>

\* MCPAgent.run: finally { await this.cleanup(); }
TCCleanup ==
    \E failing \in SUBSET clients :
        /\ pc = "cleanup"
        /\ SetRegistry(MCPAgent_cleanup(CurrentRegistry, failing))
        /\ cleanups' = cleanups + 1
        /\ pc' = "idle"
        /\ UNCHANGED <<memVars, agentVars, prevState, results, stepResult, should_act, err,
                       ret, outcome, obsVars, resVars, lateVars, reg_kind, reg_out,
                       agent_kind, special_tool_names, tc_out>>

\* act() called with the given tool calls pending
TCActCall ==
    \E pending \in ProposedCalls :
        /\ pc = "idle"
        /\ tc_out' = [op |-> "act", pending |-> pending, ret |-> ToolCallAgent_act,
                      messages_before |-> messages, messages_after |-> messages]
        /\ UNCHANGED <<memVars, agentVars, frameVars, obsVars, resVars, regVars,
                       lateVars, agent_kind, special_tool_names, cleanups>>

\* MCPAgent._handle_special_tool(name, result) called after a tool of that name ran
TCHandleSpecialTool ==
    \E name \in HandledNames :
        /\ pc \in {"idle", "think"}
        /\ agent_kind = "mcp"
        /\ tc_out' = [op |-> "handle_special", name |-> name,
                      ret |-> MCPAgent_handle_special_tool(name),
                      state_before |-> state, state_after |-> state]
        /\ UNCHANGED <<memVars, agentVars, frameVars, obsVars, resVars, regVars,
                       lateVars, agent_kind, special_tool_names, cleanups>>

NextToolCall ==
    TCRunCall \/ LoopTest \/ TCThink \/ PostStep \/ LoopExit \/ Catch \/ TCFinally
        \/ TCCleanup \/ TCActCall \/ TCHandleSpecialTool

SpecToolCall == InitToolCall /\ [][NextToolCall]_vars

\* C11: think() of the tool-calling agent never throws: a failure inside it
\* becomes an assistant message and a false result, so no step() fails because
\* of think() and the run loop is never unwound by it.
C11_ThinkNeverThrows ==
    /\ ~err
    /\ pc # "catch"
    /\ outcome # "threw"

\* C12: act() handles the pending tool calls in the proposed order and appends
\* one tool-role message per call, in that order, without failing.
C12_ActAppendsOneObservationPerCall ==
    tc_out.op = "act" =>
        /\ tc_out.ret[1] = "value"
        /\ Len(tc_out.messages_after) = Len(tc_out.messages_before) + Len(tc_out.pending)
        /\ \A i \in 1..Len(tc_out.pending) :
               tc_out.messages_after[Len(tc_out.messages_before) + i].role = Role.TOOL

\* the name matches an entry of special_tool_names, compared case-insensitively
IsSpecialTool(name) ==
    \E i \in 1..Len(special_tool_names) :
        toLowerCase(special_tool_names[i]) = toLowerCase(name)

\* C13: handling an executed tool sets the state to FINISHED exactly when the
\* tool's name is in the special-tool list (case-insensitively) and the finish
\* policy, which for the MCP agent accepts only 'terminate', returns true.
C13_SpecialToolFinishes ==
    tc_out.op = "handle_special" =>
        IF IsSpecialTool(tc_out.name) /\ MCPAgent_should_finish_execution(tc_out.name)
          THEN tc_out.ret[1] = "value" /\ tc_out.state_after = AgentState.FINISHED
          ELSE tc_out.state_after = tc_out.state_before

\* C14: every run() of a tool-calling or MCP agent is followed by one cleanup(),
\* whether the run returned, failed in a step or failed its IDLE precondition.
C14_CleanupAfterEveryRun ==
    pc = "idle" => cleanups = attempts

(***************************************************************************)
(* SpecMessages: format_messages, count_message_tokens and                 *)
(* get_recent_messages applied to lists of messages.                       *)
(***************************************************************************)
CallF == ToolCall("c1", "f", "{\"q\":1}")

\* Message objects, as the factories of the schema build them
ObjUser   == MessageValue("Message", Role.USER, {"content"}, StringContent("X"), << >>, "", "", "")
ObjCalls  == MessageValue("Message", Role.ASSISTANT, {"tool_calls"}, NoContent, <<CallF>>, "", "", "")
ObjBare   == MessageValue("Message", Role.ASSISTANT, {}, NoContent, << >>, "", "", "")
ObjImage  == MessageValue("Message", Role.USER, {"content", "base64_image"},
                          StringContent("look at this"), << >>, "", "", "I")
\* plain records
RecTool   == MessageValue("dict", Role.TOOL, {"content", "name", "tool_call_id"},
                          StringContent("R"), << >>, "f", "c1", "")
RecCalls  == MessageValue("dict", Role.ASSISTANT, {"tool_calls"}, NoContent, <<CallF>>, "", "", "")
RecBogus  == MessageValue("dict", "bogus", {"content"}, StringContent("X"), << >>, "", "", "")
RecNoRole == MessageValue("dict", "", {"content"}, StringContent("X"), << >>, "", "", "")

FmtMsgs == {ObjUser, ObjCalls, ObjBare, ObjImage, RecTool, RecCalls, RecBogus, RecNoRole}

FmtLists == UNION {[1..n -> FmtMsgs] : n \in 0..MaxMsgList}

InitMessages ==
    /\ fmt_a \in FmtLists /\ fmt_b \in FmtLists
    /\ Len(fmt_a) + Len(fmt_b) <= MaxMsgList + 1
    /\ fmt_out = [op |-> "none"]
    /\ messages = << >> /\ max_messages = DefaultMaxMessages
    /\ InitDefaultAgent /\ InitFrame /\ InitObs
    /\ InitNoResult /\ InitNoRegistry /\ InitNoToolAgent /\ InitNoGateway /\ InitNoShared

FmtFrame ==
    UNCHANGED <<memVars, agentVars, frameVars, obsVars, resVars, regVars, tcVars, gwVars, shVars,
                fmt_a, fmt_b>>

FmtFormat(support_images) ==
    /\ fmt_out' = [ret |-> format_messages(fmt_a, support_images),
                   support_images |-> support_images, op |-> "format"]
    /\ FmtFrame

FmtCount ==
    /\ fmt_out' = [a |-> count_message_tokens(fmt_a), b |-> count_message_tokens(fmt_b),
                   op |-> "count", ab |-> count_message_tokens(fmt_a \o fmt_b)]
    /\ FmtFrame

\* memory.get_recent_messages(n) on a memory whose log is fmt_a
FmtRecent(n) ==
    /\ fmt_out' = [ret |-> get_recent_messages(fmt_a, n), n |-> n, op |-> "recent",
                   log_before |-> fmt_a]
    /\ FmtFrame

NextMessages ==
    \/ \E support_images \in BOOLEAN : FmtFormat(support_images)
    \/ FmtCount
    \/ \E n \in 0..(MaxMsgList + 1) : FmtRecent(n)

SpecMessages == InitMessages /\ [][NextMessages]_vars

\* the record format_messages makes of a message before it decides to keep it
Formatted(m, support_images) ==
    format_images(IF m.cls = "Message" THEN to_dict(m) ELSE m, support_images)

CarriesContentOrToolCalls(d) == "content" \in d.keys \/ "tool_calls" \in d.keys

RECURSIVE KeptInOrder(_, _)
KeptInOrder(msgs, support_images) ==
    IF msgs = << >> THEN << >>
    ELSE LET d == Formatted(Head(msgs), support_images)
         IN  (IF CarriesContentOrToolCalls(d) THEN <<d>> ELSE << >>)
             \o KeptInOrder(Tail(msgs), support_images)

\* C27: format_messages keeps a message exactly when its record carries content
\* or tool calls (tool calls alone are enough), drops it silently otherwise, and
\* keeps the kept messages in their order.
C27_KeepsContentOrToolCalls ==
    (fmt_out.op = "format" /\ fmt_out.ret[1] = "value") =>
        fmt_out.ret[2] = KeptInOrder(fmt_a, fmt_out.support_images)

C30_RecentReturnsLastN ==
    fmt_out.op = "recent" =>
        /\ fmt_out.ret = LastN(fmt_out.log_before, fmt_out.n)
        /\ fmt_a = fmt_out.log_before

(***************************************************************************)
(* SpecGateway: one call of ask, ask_with_image or ask_tool on a gateway   *)
(* that has served earlier calls, attempt by attempt under @retry.         *)
(***************************************************************************)
ObjSystem == MessageValue("Message", Role.SYSTEM, {"content"}, StringContent("S"), << >>, "", "", "")
RecUser   == MessageValue("dict", Role.USER, {"content"}, StringContent("X"), << >>, "", "", "")
RecBogusBare == MessageValue("dict", "bogus", {}, NoContent, << >>, "", "", "")

GwMsgs == {ObjUser, RecUser, RecTool, RecBogusBare, RecNoRole}

GwMessageLists == UNION {[1..n -> GwMsgs] : n \in 0..MaxGwMsgs}

\* system_msgs: absent, or a list
GwSystemMsgs == {<< >>, <<<<ObjSystem>>>>}

StringImage == [kind |-> "string", url |-> "http://i"]

GwImages == {<< >>, <<StringImage>>}

TypedTool == [is_object |-> TRUE, has_type |-> TRUE]
UntypedTool == [is_object |-> TRUE, has_type |-> FALSE]

\* tools: absent, or a list of descriptors
GwTools == {<< >>, << << >> >>, <<<<TypedTool>>>>, <<<<UntypedTool>>>>}

GwToolChoices == {ToolChoice.AUTO, "any"}

NoResponse == Response("none", "absent", "", << >>)

Responses ==
    {Response("throw", "absent", "", << >>), Response("null", "absent", "", << >>),
     Response("ok", "absent", "", << >>), Response("ok", "empty", "", << >>),
     Response("ok", "no_message", "", << >>), Response("ok", "message", "", <<7, 3>>),
     Response("ok", "message", "R", <<7, 3>>), Response("ok", "message", "R", << >>)}

StreamResponses ==
    {Response("throw", "absent", "", << >>), Response("ok", "message", "", << >>),
     Response("ok", "message", "R", << >>)}

\* tokenizer.encode(tool).length of a descriptor object: a TypeError or some count
ToolTokens == {<<"throw">>, <<"value", 3>>}

GwModels == {"gpt-4o", "gpt-3.5-turbo"}

GwCaps == {<< >>, <<0>>, <<16>>}

\* total_input_tokens after the calls the gateway served before: none, or some
GwTotals == {0, 6}

InitGateway ==
    /\ llm \in {LLM(m, cap, total, 0) : m \in GwModels, cap \in GwCaps, total \in GwTotals}
    /\ gw_pc = "idle" /\ gw_call = [op |-> "none"] /\ gw_attempts = 0
    /\ gw_last = [op |-> "none"]
    /\ messages = << >> /\ max_messages = DefaultMaxMessages
    /\ InitDefaultAgent /\ InitFrame /\ InitObs
    /\ InitNoResult /\ InitNoRegistry /\ InitNoToolAgent /\ InitNoFormat /\ InitNoShared

GwFrame ==
    UNCHANGED <<memVars, agentVars, frameVars, obsVars, resVars, regVars, tcVars, fmtVars,
                shVars>>

GwCall(op, msgs, system_msgs, images, stream, tool_list, tool_choice) ==
    [messages |-> msgs, tools |-> tool_list, stream |-> stream, system_msgs |-> system_msgs,
     images |-> images, tool_choice |-> tool_choice, op |-> op]

GwStart(call) ==
    /\ gw_pc = "idle"
    /\ gw_pc' = "attempt" /\ gw_call' = call /\ gw_attempts' = 0
    /\ UNCHANGED <<llm, gw_last>>
    /\ GwFrame

\* llm.ask({ messages, system_msgs, stream })
GwAsk ==
    \E msgs \in GwMessageLists, system_msgs \in GwSystemMsgs, stream \in BOOLEAN :
        GwStart(GwCall("ask", msgs, system_msgs, << >>, stream, << >>, ToolChoice.AUTO))

\* llm.ask_with_image({ messages, system_msgs, images, stream })
GwAskWithImage ==
    \E msgs \in GwMessageLists, system_msgs \in GwSystemMsgs, images \in GwImages,
       stream \in BOOLEAN :
        GwStart(GwCall("ask_with_image", msgs, system_msgs, images, stream, << >>,
                       ToolChoice.AUTO))

\* llm.ask_tool({ messages, system_msgs, tools, tool_choice })
GwAskTool ==
    \E msgs \in GwMessageLists, system_msgs \in GwSystemMsgs, tool_list \in GwTools,
       tool_choice \in GwToolChoices :
        GwStart(GwCall("ask_tool", msgs, system_msgs, << >>, FALSE, tool_list, tool_choice))

\* the decorated method, called with the arguments of the call
attempt(call, response, tool_tokens) ==
    CASE call.op = "ask" ->
             ask(llm, call.messages, call.system_msgs, call.stream, response)
      [] call.op = "ask_with_image" ->
             ask_with_image(llm, call.messages, call.system_msgs, call.images, call.stream,
                            response)
      [] call.op = "ask_tool" ->
             ask_tool(llm, call.messages, call.system_msgs, call.tools, call.tool_choice,
                      response, tool_tokens)

\* the answers the provider may give to this attempt, if the attempt gets to it
ResponsesTo(call, tool_tokens) ==
    IF ~attempt(call, NoResponse, tool_tokens).called THEN {NoResponse}
    ELSE IF call.stream THEN StreamResponses ELSE Responses

\* what the tokenizer may make of the tool descriptors, if there are any
ToolTokensOf(call) ==
    IF call.op = "ask_tool" /\ has_tools(call.tools) THEN ToolTokens ELSE {<<"value", 0>>}

\* one attempt of the decorated method, and the decorator's decision after it
GwAttempt ==
    /\ gw_pc = "attempt"
    /\ \E tool_tokens \in ToolTokensOf(gw_call) :
       \E response \in ResponsesTo(gw_call, tool_tokens) :
       \E a \in {attempt(gw_call, response, tool_tokens)} :
            /\ llm' = a.llm
            /\ gw_call' = [gw_call EXCEPT !.messages = a.messages]
            /\ gw_attempts' = gw_attempts + 1
            /\ gw_last' = [ret |-> a.ret, called |-> a.called, sent |-> a.sent,
                           cost |-> a.cost, response |-> response, op |-> gw_call.op,
                           messages_before |-> gw_call.messages, before |-> llm]
            /\ gw_pc' = IF a.ret[1] = "throw" /\ retry_again(a.ret, gw_attempts + 1)
                        THEN "attempt" ELSE "done"
    /\ GwFrame

NextGateway == GwAsk \/ GwAskWithImage \/ GwAskTool \/ GwAttempt

SpecGateway == InitGateway /\ [][NextGateway]_vars

\* an attempt has been made, and this is what it threw
Threw(class) == gw_last.ret[1] = "throw" /\ gw_last.ret[2] = class

\* C21: an attempt fails with TokenLimitExceeded exactly when a cap is configured
\* and running input tokens + the computed input cost exceed it, and then the
\* provider is not invoked; without a cap the budget check never fails.
C21_TokenLimitExactlyWhenOverCap ==
    gw_last.op # "none" =>
        /\ gw_last.cost = << >> => ~Threw("TokenLimitExceeded")
        /\ gw_last.cost # << >> =>
               (Threw("TokenLimitExceeded") <=>
                    /\ gw_last.before.max_input_tokens # << >>
                    /\ gw_last.before.total_input_tokens + gw_last.cost[1]
                           > gw_last.before.max_input_tokens[1])
        /\ Threw("TokenLimitExceeded") => ~gw_last.called

\* C22: a successful ask adds to the running input and completion counters, and a
\* failed ask attempt, streaming or not, leaves both counters as they were.
C22_FailedAskLeavesCounters ==
    gw_last.op = "ask" =>
        /\ gw_last.ret[1] = "throw" =>
               /\ llm.total_input_tokens = gw_last.before.total_input_tokens
               /\ llm.total_completion_tokens = gw_last.before.total_completion_tokens
        /\ gw_last.ret[1] = "value" =>
               /\ llm.total_input_tokens >= gw_last.before.total_input_tokens
               /\ llm.total_completion_tokens >= gw_last.before.total_completion_tokens

\* C23: a TokenLimitExceeded failure is never retried and propagates; any other
\* failure is retried until 6 attempts have been made, and then propagates; a
\* success ends the call.
C23_RetryPolicy ==
    /\ gw_attempts <= 6
    /\ gw_last.op # "none" =>
           /\ Threw("TokenLimitExceeded") => gw_pc = "done"
           /\ gw_last.ret[1] = "value" => gw_pc = "done"
           /\ (gw_last.ret[1] = "throw" /\ ~Threw("TokenLimitExceeded")) =>
                  (gw_pc = "done" <=> gw_attempts = 6)
    /\ (gw_last.op # "none" /\ gw_attempts = 1 /\ Threw("TokenLimitExceeded")) =>
           gw_pc = "done"

C23_Witness ==
    /\ gw_pc = "done" /\ gw_attempts = 6 /\ Threw("APIError")
    /\ gw_call.op = "ask_tool"

\* the two failures of ask_tool's own argument validation
ToolValidationError ==
    /\ Threw("ValueError")
    /\ gw_last.ret[3] \in {"Invalid tool_choice", "Each tool must be a dict with 'type' field"}

BadToolArguments ==
    \/ gw_call.tool_choice \notin {"none", "auto", "required"}
    \/ /\ gw_call.tools # << >>
       /\ \E i \in 1..Len(gw_call.tools[1]) : ~gw_call.tools[1][i].has_type

\* C24: ask_tool fails its argument validation exactly when the tool-choice mode
\* is not none/auto/required or a tool descriptor lacks a type field; with a valid
\* mode and typed descriptors the call reaches the provider, budget permitting.
C24_ToolValidation ==
    gw_last.op = "ask_tool" =>
        /\ ToolValidationError => BadToolArguments
        /\ (~BadToolArguments /\ gw_last.cost # << >> /\ ~Threw("TokenLimitExceeded")) =>
               gw_last.called

\* C25: when the provider's response has no choices (absent or empty list) or no
\* message, ask_tool returns null without failing and without changing the
\* counters; otherwise it returns the first choice's message.
C25_NullWithoutChoices ==
    (gw_last.op = "ask_tool" /\ gw_last.called /\ gw_last.response.status # "throw") =>
        IF \/ gw_last.response.status = "null"
           \/ gw_last.response.choices \in {"absent", "empty", "no_message"}
        THEN /\ gw_last.ret = <<"value", "null">>
             /\ llm = gw_last.before
        ELSE gw_last.ret = <<"value", [content |-> gw_last.response.content]>>

\* the messages handed to the call: conversation and system messages
HandedMessages ==
    gw_last.messages_before
    \o (IF gw_call.system_msgs = << >> THEN << >> ELSE gw_call.system_msgs[1])

\* C26: if any message handed to a call has no role or a role outside
\* {system, user, assistant, tool}, the attempt fails with an invalid-argument
\* error and the provider is not invoked.
C26_EveryMessageValidated ==
    (gw_last.op # "none"
     /\ \E i \in 1..Len(HandedMessages) :
            HandedMessages[i].role \notin {"system", "user", "assistant", "tool"}) =>
        Threw("ValueError") /\ ~gw_last.called

\* C28: ask_with_image fails with the unsupported-capability error on a model
\* outside the multimodal set; otherwise it fails with the invalid-argument error
\* whenever the formatted list is empty or does not end with a user message, and
\* only past both checks are the images appended and the provider invoked.
C28_ImageChecks ==
    gw_last.op = "ask_with_image" =>
        IF gw_last.before.model \notin MULTIMODAL_MODELS
        THEN gw_last.ret = Throw("ValueError", "Model does not support images")
             /\ ~gw_last.called
        ELSE LET formatted == format_messages(gw_last.messages_before, TRUE)
             IN  (/\ formatted[1] = "value"
                  /\ \/ formatted[2] = << >>
                     \/ formatted[2][Len(formatted[2])].role # "user") =>
                     /\ gw_last.ret = Throw("ValueError",
                            "The last message must be from the user to attach images")
                     /\ ~gw_last.called
                     /\ gw_call.messages = gw_last.messages_before

(***************************************************************************)
(* SpecTurn: model turns that proposed tool calls are recorded in a memory *)
(* with Message.from_tool_calls, and is_stuck() is evaluated on the log.   *)
(***************************************************************************)
TurnContents == {"X", "Y"}

\* memory.add_message(Message.from_tool_calls({ content, tool_calls }))
TurnRecord ==
    \E content \in TurnContents :
        /\ stuck_result = << >>
        /\ Len(appended) < MaxTurns
        /\ messages' = add_message(messages, max_messages,
                                   from_tool_calls(content, <<CallF>>))
        /\ appended' = Append(appended, from_tool_calls(content, <<CallF>>))
        /\ UNCHANGED <<extVars, max_messages, agentVars, frameVars, attempts, rejections,
                       interleaved, entry_step, step_texts, fin_set, think_calls,
                       act_calls, detections, orig_prompt, stuck_result>>

NextTurn == TurnRecord \/ CheckStuck

SpecTurn == InitStuck /\ [][NextTurn]_vars

\* the log as stuck detection would see it if every recorded turn were an assistant message
TurnsAsAssistant(log) ==
    [i \in DOMAIN log |->
        IF "tool_calls" \in DOMAIN log[i] THEN [log[i] EXCEPT !.role = Role.ASSISTANT]
        ELSE log[i]]

\* C32: the message recorded for a turn that proposed tool calls (built with
\* Message.from_tool_calls) has role assistant and carries the content and the
\* tool calls, so stuck detection counts it as an assistant message.
C32_ToolTurnIsAssistant ==
    /\ \A i \in 1..Len(appended) :
           /\ appended[i].role = Role.ASSISTANT
           /\ appended[i].content \in TurnContents
           /\ appended[i].tool_calls = <<CallF>>
    /\ stuck_result # << >>
         => stuck_result[1] = is_stuck(TurnsAsAssistant(messages), duplicate_threshold)

(***************************************************************************)
(* SpecShared: the gateway LLM.getInstance hands out, used by one agent or *)
(* shared by two.  A call suspends at `await ...create(...)`: what the     *)
(* method does before the await and what it does after it are two steps,   *)
(* and steps of the other agent's call may come in between.                *)
(***************************************************************************)
ShCaps == {<< >>, <<10>>}

ShCalls ==
    {GwCall(op, <<RecUser>>, << >>, << >>, stream, << >>, ToolChoice.AUTO) :
         op \in {"ask", "ask_with_image"}, stream \in BOOLEAN}
    \cup {GwCall("ask_tool", <<RecUser>>, << >>, << >>, FALSE, << >>, ToolChoice.AUTO)}

\* the provider fails, or answers with the prompt tokens the gateway computed,
\* or with more of them
ShResponses ==
    {Response("throw", "absent", "", << >>), Response("ok", "message", "R", <<8, 3>>),
     Response("ok", "message", "R", <<11, 3>>)}

ShStreamResponses ==
    {Response("throw", "absent", "", << >>), Response("ok", "message", "R", << >>)}

InitShared ==
    /\ llm \in {LLM("gpt-4o", cap, 0, 0) : cap \in ShCaps}
    /\ sh_agents \in {1, 2} /\ sh_started = 0 /\ sh_proc = [i \in 1..2 |-> NoCall]
    /\ gw_pc = "idle" /\ gw_call = [op |-> "none"] /\ gw_attempts = 0
    /\ gw_last = [op |-> "none"]
    /\ messages = << >> /\ max_messages = DefaultMaxMessages
    /\ InitDefaultAgent /\ InitFrame /\ InitObs
    /\ InitNoResult /\ InitNoRegistry /\ InitNoToolAgent /\ InitNoFormat

ShFrame ==
    UNCHANGED <<memVars, agentVars, frameVars, obsVars, resVars, regVars, tcVars, fmtVars,
                gw_pc, gw_call, gw_attempts, gw_last, sh_agents>>

\* agent i calls llm.ask / ask_with_image / ask_tool
ShStart(i) ==
    /\ sh_proc[i].pc = "idle"
    /\ sh_started < MaxShCalls
    /\ \E call \in ShCalls :
           sh_proc' = [sh_proc EXCEPT ![i] = [NoCall EXCEPT !.pc = "attempt", !.call = call]]
    /\ sh_started' = sh_started + 1
    /\ UNCHANGED llm
    /\ ShFrame

\* an attempt of agent i's call up to `await ...create(...)`: the messages are
\* formatted and counted, the budget is checked and, when streaming, the input
\* tokens are added; a throw ends the attempt before the provider is called
ShAdmit(i) ==
    /\ sh_proc[i].pc = "attempt"
    /\ \E a \in {attempt(sh_proc[i].call, NoResponse, <<"value", 0>>)} :
           /\ llm' = a.llm
           /\ sh_proc' = [sh_proc EXCEPT ![i] =
                  IF a.called
                  THEN [@ EXCEPT !.pc = "awaiting", !.cost = a.cost[1],
                                 !.seen = llm.total_input_tokens,
                                 !.muts = @ + (IF a.llm # llm THEN 1 ELSE 0)]
                  ELSE [@ EXCEPT !.pc = IF retry_again(a.ret, sh_proc[i].attempts + 1)
                                          THEN "attempt" ELSE "idle",
                                 !.attempts = @ + 1]]
    /\ UNCHANGED sh_started
    /\ ShFrame

\* an attempt from the provider's answer on, on the gateway as it is by then
resume(this, call, cost, response) ==
    CASE call.op = "ask" /\ call.stream ->
             stream_counted(this, call.messages, cost, call.messages, response, TRUE)
      [] call.op = "ask" /\ ~call.stream ->
             complete(this, call.messages, cost, call.messages, response, TRUE)
      [] call.op = "ask_with_image" /\ call.stream ->
             stream_counted(this, call.messages, cost, call.messages, response, FALSE)
      [] call.op = "ask_with_image" /\ ~call.stream ->
             complete(this, call.messages, cost, call.messages, response, FALSE)
      [] call.op = "ask_tool" ->
             tool_response(this, call.messages, response, call.messages, cost)

\* the provider answers agent i's attempt, and @retry decides what follows
ShAnswer(i) ==
    /\ sh_proc[i].pc = "awaiting"
    /\ \E response \in (IF sh_proc[i].call.stream THEN ShStreamResponses ELSE ShResponses) :
       \E a \in {resume(llm, sh_proc[i].call, sh_proc[i].cost, response)} :
           /\ llm' = a.llm
           /\ sh_proc' = [sh_proc EXCEPT ![i] =
                  [@ EXCEPT !.pc = IF a.ret[1] = "throw"
                                        /\ retry_again(a.ret, sh_proc[i].attempts + 1)
                                     THEN "attempt" ELSE "idle",
                            !.attempts = @ + 1,
                            !.muts = @ + (IF a.llm # llm THEN 1 ELSE 0)]]
    /\ UNCHANGED sh_started
    /\ ShFrame

NextShared ==
    \/ \E i \in 1..sh_agents : ShStart(i)
    \/ \E i \in 1..sh_agents : ShAdmit(i)
    \/ \E i \in 1..sh_agents : ShAnswer(i)

SpecShared == InitShared /\ [][NextShared]_vars

\* the cap is configured and the running input total is above it
OverCap ==
    llm.max_input_tokens # << >> /\ llm.total_input_tokens > llm.max_input_tokens[1]

\* C31: within one call the running counters are mutated at a single point of
\* the call, and with one agent nothing else mutates them between its budget
\* check and its update.  (That two agents sharing the gateway can both be
\* admitted and push the total over the cap is the state SharedRace.)
C31_SinglePointOfMutation ==
    /\ \A i \in 1..sh_agents : sh_proc[i].muts <= 1
    /\ (sh_agents = 1 /\ sh_proc[1].pc = "awaiting") =>
           llm.total_input_tokens
               = sh_proc[1].seen + (IF sh_proc[1].call.stream THEN sh_proc[1].cost ELSE 0)

\* two agents share a capped gateway, both calls passed the budget check on the
\* same running total and wait for the provider, and the total their updates
\* lead to is above the cap
SharedRace ==
    /\ sh_agents = 2 /\ llm.max_input_tokens # << >>
    /\ sh_proc[1].pc = "awaiting" /\ sh_proc[2].pc = "awaiting"
    /\ ~sh_proc[1].call.stream /\ ~sh_proc[2].call.stream
    /\ sh_proc[1].seen = sh_proc[2].seen
    /\ sh_proc[1].seen + sh_proc[1].cost + sh_proc[2].cost > llm.max_input_tokens[1]

\* C38: with one agent and a cap configured, the running input-token total
\* never exceeds the cap and never decreases, whatever calls and attempts are made.
C38_TotalWithinCap ==
    [][(sh_agents = 1 /\ llm.max_input_tokens # << >>)
           => /\ llm'.total_input_tokens <= llm'.max_input_tokens[1]
              /\ llm'.total_input_tokens >= llm.total_input_tokens]_vars

====
